---- MODULE Spec2Model ----
(***************************************************************************)
(* Name-path scoping engine of antd-forge: path algebra, the ambient       *)
(* name-prefix context, the typed FormItem / FormList bindings, the        *)
(* shadow Form.List capture and the schema validation rule.                *)
(*                                                                         *)
(* The bindings modelled are those of packages/base (createFormHook,       *)
(* FormItem, FormList, useFormInstance); the getName item handles are      *)
(* those of the helper FormList kept in packages/antd-forge.               *)
(***************************************************************************)
EXTENDS Integers, Sequences, FiniteSets, TLC

(***************************************************************************)
(* Bounds of the model.                                                    *)
(***************************************************************************)
MaxDepth == 3
MaxIndex == 1
MaxLists == 1
MaxItems == 3
MaxOps == 3
MaxPasses == 4
MaxIssues == 2
MaxRenders == 1
MaxBinds == 2
MaxChanges == 2
MaxCalls == 1
MaxShapeDepth == 4
MaxBurst == 3
MaxTime == 5
MaxEdits == 2
MaxSubmits == 2
MaxSearches == 4

(***************************************************************************)
(* Path segments.  A segment is a string key or a numeric index, possibly  *)
(* wrapped in an object carrying a .key field.  The three shapes are kept  *)
(* in one record so that any two segments can be compared:                 *)
(*   k = the string key ("" for an index), i = the index (-1 for a key),   *)
(*   w = TRUE when the segment arrived as {key: ...}.                      *)
(***************************************************************************)
K(s) == [k |-> s, i |-> -1, w |-> FALSE]
N(n) == [k |-> "", i |-> n, w |-> FALSE]
W(seg) == [seg EXCEPT !.w = TRUE]

\* path-segments.ts normalizePathSegment: unwrap {key} objects.
normalizePathSegment(segment) == [segment EXCEPT !.w = FALSE]

\* path-segments.ts arePathSegmentsEqual: === after unwrapping both sides.
arePathSegmentsEqual(a, b) == normalizePathSegment(a) = normalizePathSegment(b)

\* path-segments.ts normalizePath: map normalizePathSegment over the path.
normalizePath(path) == [n \in 1..Len(path) |-> normalizePathSegment(path[n])]

\* A name prop: absent, a bare scalar, or an array of segments.
NoName == [form |-> "absent", segs |-> <<>>]
Scalar(seg) == [form |-> "scalar", segs |-> <<seg>>]
Arr(path) == [form |-> "array", segs |-> path]

\* path-segments.ts normalizeNamePath: [] for null/undefined, the array
\* itself for an array, [name] for a bare scalar.
normalizeNamePath(name) ==
  IF name.form = "absent" THEN <<>>
  ELSE IF name.form = "array" THEN name.segs
  ELSE <<name.segs[1]>>

\* path-segments.ts arePathsEqual: same length and pairwise equal segments
\* after unwrapping.  (Paths in the model are never null.)
arePathsEqual(a, b) ==
  /\ Len(a) = Len(b)
  /\ \A n \in 1..Len(a) : arePathSegmentsEqual(a[n], b[n])

\* NamePrefixContext buildFullPath: the name path itself under an empty
\* prefix, prefix followed by the name path otherwise.
buildFullPath(prefix, namePath) ==
  IF Len(prefix) = 0 THEN namePath ELSE prefix \o namePath

IsPrefixOf(p, q) == Len(p) <= Len(q) /\ SubSeq(q, 1, Len(p)) = p

(***************************************************************************)
(* Scoped instance hook.                                                   *)
(***************************************************************************)
\* An optional inheritAt argument.
NoInheritAt == [given |-> FALSE, path |-> <<>>]
InheritAt(path) == [given |-> TRUE, path |-> path]

\* useFormInstance: inherit selects "inherit from context" (undefined),
\* otherwise the empty root path.
useFormInstanceInheritAt(inherit) ==
  IF inherit THEN NoInheritAt ELSE InheritAt(<<>>)

\* createFormHook useCustomFormInstance: effectivePrefix = inheritAt ??
\* currentPrefix; the components are wrapped in a NamePrefixProvider for
\* effectivePrefix only when it is non-empty.
useCustomFormInstance(inheritAt, currentPrefix) ==
  LET effectivePrefix == IF inheritAt.given THEN inheritAt.path
                         ELSE currentPrefix
  IN [effectivePrefix |-> effectivePrefix,
      hasPrefix |-> Len(effectivePrefix) > 0]

\* The prefix a binding reads through useNamePrefix: a wrapped component
\* (PrefixedFormItem / PrefixedFormList) sits under its own provider, an
\* unwrapped one reads the ambient context.
ContextPrefix(instance, ambient) ==
  IF instance.hasPrefix THEN instance.effectivePrefix ELSE ambient

(***************************************************************************)
(* Field binding (createFormItem) and list binding (createFormList).       *)
(***************************************************************************)
\* FormItem that ignores the prefix it read.
FormItem_IgnoresPrefix(ctxPrefix, name) ==
  LET namePath == normalizeNamePath(name)
  IN [fullPath |-> namePath,
      provides |-> Len(ctxPrefix) = 0,
      childPrefix |-> IF Len(ctxPrefix) > 0 THEN ctxPrefix ELSE namePath]

\* FormItem that always provides its own full path to its children.
FormItem_AlwaysProvides(ctxPrefix, name) ==
  LET fullPath == buildFullPath(ctxPrefix, normalizeNamePath(name))
  IN [fullPath |-> fullPath, provides |-> TRUE, childPrefix |-> fullPath]

\* FormItem: resolve the full path against the prefix read from context and
\* decide which prefix the children see.
FormItem(ctxPrefix, name) ==
  LET hasPrefix == Len(ctxPrefix) > 0
      namePath == normalizeNamePath(name)
      fullPath == IF hasPrefix THEN buildFullPath(ctxPrefix, namePath)
                  ELSE namePath
  IN [fullPath |-> fullPath,
      provides |-> ~hasPrefix,
      childPrefix |-> IF hasPrefix THEN ctxPrefix ELSE fullPath]

\* FormList that provides its own path to its children.
FormList_ProvidesOwnPath(ctxPrefix, name) ==
  LET namePath == buildFullPath(ctxPrefix, normalizeNamePath(name))
  IN [fullPath |-> namePath, provides |-> TRUE, childPrefix |-> namePath]

\* FormList: the path handed to the underlying Form.List; children are
\* rendered outside it, under the prefix the list itself read.
FormList(ctxPrefix, name) ==
  LET rawNamePath == normalizeNamePath(name)
      namePath == IF Len(ctxPrefix) > 0 THEN ctxPrefix \o rawNamePath
                  ELSE rawNamePath
  IN [fullPath |-> namePath,
      provides |-> FALSE,
      childPrefix |-> ctxPrefix]

(***************************************************************************)
(* Schema validator (Standard Schema contract) and the form store.         *)
(* A value tree is kept as its set of leaves [path, value]; a schema names *)
(* the leaves it requires, in the order it reports them, and the leaves it *)
(* knows (unknown keys are stripped from the parsed output).               *)
(***************************************************************************)
\* The value a normalizer returns for "no value" (JavaScript undefined).
Undefined == "<undefined>"

HasValueAt(values, p) ==
  \E e \in values : IsPrefixOf(p, e.path) /\ e.value # Undefined

\* The top-most missing ancestor of a required leaf: the path the
\* validator reports the "missing value" issue at.
RECURSIVE MissingAt(_, _, _)
MissingAt(values, leaf, n) ==
  IF n >= Len(leaf) THEN leaf
  ELSE IF ~HasValueAt(values, normalizePath(SubSeq(leaf, 1, n)))
       THEN SubSeq(leaf, 1, n)
       ELSE MissingAt(values, leaf, n + 1)

RECURSIVE IssuesFrom(_, _, _, _)
IssuesFrom(schema, values, n, acc) ==
  IF n > Len(schema.required) THEN acc
  ELSE LET leaf == schema.required[n]
           at == MissingAt(values, leaf, 1)
           seen == \E m \in 1..Len(acc) : acc[m].path = at
       IN IF HasValueAt(values, normalizePath(leaf)) \/ seen
          THEN IssuesFrom(schema, values, n + 1, acc)
          ELSE IssuesFrom(schema, values, n + 1,
                 Append(acc, [hasPath |-> TRUE, path |-> at,
                              message |-> schema.message]))

\* The issues a schema's refinements report: each one unless the value it
\* looks at is present.
RejectIssues(schema, values) ==
  SelectSeq(schema.rejects, LAMBDA r : ~HasValueAt(values, r.unless))

\* The output of a coercing schema for a raw leaf value (z.coerce.number).
Coerce(v) == IF v = "30" THEN "number 30" ELSE v

\* The value a throwing validator chokes on.
Poison == "boom"

\* schema["~standard"].validate(input): it throws, or yields (directly or
\* as a Promise) the issues or the parsed value.
Validate(schema, values) ==
  LET rejected == RejectIssues(schema, values)
      issues == IssuesFrom(schema, values, 1, <<>>)
                  \o [n \in 1..Len(rejected) |->
                        [hasPath |-> rejected[n].hasPath,
                         path |-> rejected[n].path,
                         message |-> rejected[n].message]]
      threw == schema.throws /\ \E e \in values : e.value = Poison
  IN IF threw
     THEN [threw |-> TRUE, promise |-> FALSE, issues |-> <<>>,
           hasIssues |-> FALSE, value |-> {}]
     ELSE IF Len(issues) > 0
     THEN [threw |-> FALSE, promise |-> schema.async, issues |-> issues,
           hasIssues |-> TRUE, value |-> {}]
     ELSE [threw |-> FALSE, promise |-> schema.async, issues |-> <<>>,
           hasIssues |-> FALSE,
           value |-> {[path |-> e.path,
                       value |-> IF schema.coerce THEN Coerce(e.value)
                                 ELSE e.value] :
                        e \in {x \in values :
                                 \E q \in schema.known : IsPrefixOf(q, x.path)}}]

\* standardValidate (an async function): the promise it returns is
\* rejected with what the validator threw, or fulfilled with the issues or
\* with the parsed value; a Promise from the validator is awaited.
standardValidate(schema, input) ==
  LET result == Validate(schema, input)
  IN IF result.threw
     THEN [rejected |-> TRUE, error |-> Poison, success |-> FALSE,
           issues |-> <<>>, value |-> {}]
     ELSE IF result.hasIssues
     THEN [rejected |-> FALSE, error |-> "", success |-> FALSE,
           issues |-> result.issues, value |-> {}]
     ELSE [rejected |-> FALSE, error |-> "", success |-> TRUE,
           issues |-> <<>>, value |-> result.value]

\* A rule that also fails a field for an issue reported at one of its
\* ancestors.
SchemaRule_AncestorMatches(result, fieldPath) ==
  IF result.rejected THEN [ok |-> FALSE, message |-> result.error]
  ELSE IF result.success THEN [ok |-> TRUE, message |-> ""]
  ELSE LET matching == {n \in 1..Len(result.issues) :
                          /\ result.issues[n].hasPath
                          /\ IsPrefixOf(normalizePath(result.issues[n].path),
                                        fieldPath)}
       IN IF matching = {} THEN [ok |-> TRUE, message |-> ""]
          ELSE LET first == CHOOSE n \in matching : \A m \in matching : n <= m
               IN [ok |-> FALSE, message |-> result.issues[first].message]

\* createSchemaRule: validate all values, find the first issue whose
\* normalized path equals the field path, reject with its message.  The
\* rule's validator is an async function: what standardValidate rejects
\* with rejects the rule's promise as well.
SchemaRule(result, fieldPath) ==
  IF result.rejected THEN [ok |-> FALSE, message |-> result.error]
  ELSE IF result.success THEN [ok |-> TRUE, message |-> ""]
  ELSE LET matching == {n \in 1..Len(result.issues) :
                          /\ result.issues[n].hasPath
                          /\ arePathsEqual(normalizePath(result.issues[n].path),
                                           fieldPath)}
       IN IF matching = {} THEN [ok |-> TRUE, message |-> ""]
          ELSE LET first == CHOOSE n \in matching : \A m \in matching : n <= m
               IN [ok |-> FALSE, message |-> result.issues[first].message]

\* Field errors named by the issues' paths as reported.
mapIssuesToFormErrors_RawPaths(issues) ==
  {[hasName |-> issues[n].hasPath, name |-> issues[n].path,
    errors |-> issues[n].message] : n \in 1..Len(issues)}

\* createFormHook mapIssuesToFormErrors: one field error per issue, at the
\* issue's normalized path (no name when the issue has no path).
mapIssuesToFormErrors(issues) ==
  {[hasName |-> issues[n].hasPath, name |-> normalizePath(issues[n].path),
    errors |-> issues[n].message] : n \in 1..Len(issues)}

\* Form.Item name={fullPath}: the control writes its value at that path.
SetValue(values, path, v) ==
  {e \in values : ~IsPrefixOf(e.path, path) /\ ~IsPrefixOf(path, e.path)}
    \cup {[path |-> path, value |-> v]}

NoValidator == [present |-> FALSE, required |-> <<>>, known |-> {},
                message |-> "", rejects |-> <<>>,
                async |-> FALSE, throws |-> FALSE, coerce |-> FALSE]
UserSchema == [present |-> TRUE,
               required |-> << <<K("address"), K("street")>> >>,
               known |-> { <<K("address")>> },
               message |-> "Required", rejects |-> <<>>,
                async |-> FALSE, throws |-> FALSE, coerce |-> FALSE]
EmailsSchema == [present |-> TRUE,
                 required |-> << <<K("emails"), W(N(0)), K("email")>> >>,
                 known |-> { <<K("emails")>> },
                 message |-> "Invalid email", rejects |-> <<>>,
                async |-> FALSE, throws |-> FALSE, coerce |-> FALSE]
Validators == {NoValidator, UserSchema, EmailsSchema}

(***************************************************************************)
(* The form-level hook: required-field probe, field props, normalization   *)
(* and the submit handler.                                                 *)
(***************************************************************************)
\* warning(): console.warn in a development build, nothing otherwise.
warning(message, nodeEnv, console) ==
  IF nodeEnv = "development" THEN Append(console, message) ELSE console

AsyncProbeMessage ==
  "Asynchronous schema validation is not supported. Required field detection disabled."

\* The paths of the issues that have one, in the order reported.
IssuePaths(issues) ==
  LET withPath == SelectSeq(issues, LAMBDA issue : issue.hasPath)
  IN [n \in 1..Len(withPath) |-> withPath[n].path]

\* A probe that reports the required paths last to first.
requiredFieldsOf_Reversed(validator) ==
  IF ~validator.present
  THEN [defined |-> FALSE, paths |-> <<>>, probed |-> FALSE, warned |-> FALSE]
  ELSE LET result == Validate(validator, {})
           paths == IssuePaths(result.issues)
       IN IF result.promise
          THEN [defined |-> FALSE, paths |-> <<>>, probed |-> TRUE,
                warned |-> TRUE]
          ELSE [defined |-> TRUE,
                paths |-> [n \in 1..Len(paths) |-> paths[Len(paths) + 1 - n]],
                probed |-> TRUE, warned |-> FALSE]

\* A probe that waits for a pending result.
requiredFieldsOf_Awaited(validator) ==
  IF ~validator.present
  THEN [defined |-> FALSE, paths |-> <<>>, probed |-> FALSE, warned |-> FALSE]
  ELSE [defined |-> TRUE,
        paths |-> IssuePaths(Validate(validator, {}).issues),
        probed |-> TRUE, warned |-> FALSE]

\* createFormHook requiredFields: undefined without a validator; undefined,
\* with a warning, when validate({}) returns a Promise; the paths of the
\* reported issues otherwise ([] when there are none).
requiredFieldsOf(validator) ==
  IF ~validator.present
  THEN [defined |-> FALSE, paths |-> <<>>, probed |-> FALSE, warned |-> FALSE]
  ELSE LET result == Validate(validator, {})
       IN IF result.promise
          THEN [defined |-> FALSE, paths |-> <<>>, probed |-> TRUE,
                warned |-> TRUE]
          ELSE IF result.hasIssues
          THEN [defined |-> TRUE, paths |-> IssuePaths(result.issues),
                probed |-> TRUE, warned |-> FALSE]
          ELSE [defined |-> TRUE, paths |-> <<>>, probed |-> TRUE,
                warned |-> FALSE]

\* normalizeHelpers.ts cleanEmptyValues on a string leaf.
cleanEmptyValues(value) == IF value = "" THEN Undefined ELSE value

\* defaultEmptyValuesToUndefined(params).
defaultEmptyValuesToUndefined(params) == cleanEmptyValues(params.value)

\* createNormalizeParams(name, value).
createNormalizeParams(name, value) == [name |-> name, value |-> value]

\* A per-field normalize function a caller may pass.
ItemNormalize(value) == IF value = "Alice" THEN "ALICE" ELSE value

NotNormalized(value) ==
  [by |-> "none", value |-> value, params |-> createNormalizeParams(<<>>, "")]

\* A field whose form-level normalizeValue wins over its own normalize.
resolvedNormalize_FormFirst(normalize, normalizeValue, fullPath, value) ==
  IF normalizeValue
  THEN LET params == createNormalizeParams(fullPath, value)
       IN [by |-> "form", value |-> defaultEmptyValuesToUndefined(params),
           params |-> params]
  ELSE IF normalize
  THEN [by |-> "item", value |-> ItemNormalize(value),
        params |-> createNormalizeParams(<<>>, "")]
  ELSE NotNormalized(value)

\* A field that cleans empty values when nothing is configured.
resolvedNormalize_CleansByDefault(normalize, normalizeValue, fullPath, value) ==
  IF normalize
  THEN [by |-> "item", value |-> ItemNormalize(value),
        params |-> createNormalizeParams(<<>>, "")]
  ELSE LET params == createNormalizeParams(fullPath, value)
       IN [by |-> IF normalizeValue THEN "form" ELSE "none",
           value |-> defaultEmptyValuesToUndefined(params),
           params |-> params]

\* createFormItem resolvedNormalize applied to a changed value: the
\* per-item normalize prop when given, else the form's normalizeValue
\* called with createNormalizeParams(fullPath, value), else the raw value.
resolvedNormalize(normalize, normalizeValue, fullPath, value) ==
  IF normalize
  THEN [by |-> "item", value |-> ItemNormalize(value),
        params |-> createNormalizeParams(<<>>, "")]
  ELSE IF normalizeValue
  THEN LET params == createNormalizeParams(fullPath, value)
       IN [by |-> "form", value |-> defaultEmptyValuesToUndefined(params),
           params |-> params]
  ELSE NotNormalized(value)

\* Field props that compare required paths segment by segment as given.
FormItemProps_ExactPaths(ctxPrefix, name, normalize, context) ==
  LET fullPath == FormItem(ctxPrefix, name).fullPath
      requiredFields == context.requiredFields
  IN [rendered |-> TRUE, declared |-> name, ctxPrefix |-> ctxPrefix,
      fullPath |-> fullPath, named |-> TRUE, normalize |-> normalize,
      schemaRule |-> context.validator.present,
      required |->
        [defined |-> requiredFields.defined,
         value |-> /\ requiredFields.defined
                   /\ \E n \in 1..Len(requiredFields.paths) :
                        requiredFields.paths[n] = fullPath]]

\* createFormItem: the props handed to Form.Item.  normalizeNamePath
\* returns an array for every name, and an array is truthy, so fullPath is
\* defined for every field: Form.Item always gets a name, the schema rule
\* is attached whenever a validator is bound, and required is computed
\* whenever the form has required fields.
FormItemProps(ctxPrefix, name, normalize, context) ==
  LET fullPath == FormItem(ctxPrefix, name).fullPath
      requiredFields == context.requiredFields
  IN [rendered |-> TRUE, declared |-> name, ctxPrefix |-> ctxPrefix,
      fullPath |-> fullPath, named |-> TRUE, normalize |-> normalize,
      schemaRule |-> context.validator.present,
      required |->
        [defined |-> requiredFields.defined,
         value |-> /\ requiredFields.defined
                   /\ \E n \in 1..Len(requiredFields.paths) :
                        arePathsEqual(requiredFields.paths[n], fullPath)]]

\* A submit handler that hands the raw values to the caller.
onFinish_RawValues(hasOnFinish, validator, values) ==
  LET quiet == [ran |-> TRUE, input |-> values, validated |-> FALSE,
                called |-> FALSE, arg |-> {}, wrote |-> FALSE,
                errors |-> {}, rejected |-> FALSE, error |-> "",
                via |-> "handler"]
  IN IF ~hasOnFinish THEN quiet
     ELSE [quiet EXCEPT !.called = TRUE, !.arg = values]

\* createFormHook onFinish(values): nothing without a caller's onFinish;
\* the raw values without a validator; otherwise the parsed value on
\* success and setFields(mapIssuesToFormErrors(issues)) on failure.  The
\* handler is async: what the validator throws rejects its promise.
onFinish(hasOnFinish, validator, values) ==
  LET quiet == [ran |-> TRUE, input |-> values, validated |-> FALSE,
                called |-> FALSE, arg |-> {}, wrote |-> FALSE,
                errors |-> {}, rejected |-> FALSE, error |-> "",
                via |-> "handler"]
  IN IF ~hasOnFinish THEN quiet
     ELSE IF ~validator.present
     THEN [quiet EXCEPT !.called = TRUE, !.arg = values]
     ELSE LET result == standardValidate(validator, values)
          IN IF result.rejected
             THEN [quiet EXCEPT !.rejected = TRUE, !.error = result.error]
             ELSE IF result.success
             THEN [quiet EXCEPT !.validated = TRUE, !.called = TRUE,
                                !.arg = result.value]
             ELSE [quiet EXCEPT !.validated = TRUE, !.wrote = TRUE,
                                !.errors = mapIssuesToFormErrors(result.issues)]

(***************************************************************************)
(* Array-field primitive (Form.List) and the two list bindings.            *)
(* Indices are 0-based as in the code; sequences are 1-based.              *)
(***************************************************************************)
RemoveAt(seq, k) ==
  IF k < 0 \/ k >= Len(seq) THEN seq
  ELSE SubSeq(seq, 1, k) \o SubSeq(seq, k + 2, Len(seq))

InsertAt(seq, k, x) == SubSeq(seq, 1, k) \o <<x>> \o SubSeq(seq, k + 1, Len(seq))

MoveIn(seq, from, to) ==
  IF from < 0 \/ from >= Len(seq) \/ to < 0 \/ to >= Len(seq) \/ from = to
  THEN seq
  ELSE InsertAt(RemoveAt(seq, from), to, seq[from + 1])

\* The keys after the primitive rendered `count` items: an item without a
\* key is given the next id.
RECURSIVE FillKeys(_, _, _)
FillKeys(keys, keyId, count) ==
  IF Len(keys) >= count THEN [keys |-> keys, keyId |-> keyId]
  ELSE FillKeys(Append(keys, keyId), keyId + 1, count)

\* A primitive whose fields are named by their key.
PrimitiveFields_NameIsKey(count, keys) ==
  [n \in 1..count |-> [name |-> keys[n], key |-> keys[n]]]

\* The fields the primitive hands to its render callback: one per item of
\* the array value, name = the item's index, key = its stable key.
PrimitiveFields(count, keys) ==
  [n \in 1..count |-> [name |-> n - 1, key |-> keys[n]]]

\* An item handle as the children callback receives it.
Handle(name, key, hasGetName, listPath, index) ==
  [name |-> name, key |-> key, hasGetName |-> hasGetName,
   listPath |-> listPath, index |-> index]

\* Helper handles whose getName closes over the item's key.
HelperHandles_KeyAsIndex(prefixPath, fields) ==
  [n \in 1..Len(fields) |->
     Handle(fields[n].name, fields[n].key, TRUE, prefixPath, fields[n].key)]

\* Helper FormList (antd-forge): each field is mapped to a handle with its
\* index and a getName closing over the list path and that index.
HelperHandles(prefixPath, fields) ==
  [n \in 1..Len(fields) |->
     Handle(fields[n].name, fields[n].key, TRUE, prefixPath, fields[n].name)]

\* Shadow FormList (base): the captured fields are passed on as they are.
ShadowHandles(fields) ==
  [n \in 1..Len(fields) |->
     Handle(fields[n].name, fields[n].key, FALSE, <<>>, fields[n].name)]

\* getName(relativePath) of a helper handle.
GetName(h, relativePath) == h.listPath \o <<N(h.index)>> \o relativePath

\* The path the helper FormList registers: the name as an array.
HelperListPath(name) == IF name.form = "array" THEN name.segs
                        ELSE <<name.segs[1]>>

\* Shadow FormList that hands the primitive's fresh fields to the children
\* in the very pass that produced them.
ChildrenFields_Pulled(captured, produced) == ShadowHandles(produced)

\* Shadow FormList: children(listState.fields, ...) is rendered from the
\* captured state, whatever the primitive produced in this pass.
ChildrenFields(captured, produced) == ShadowHandles(captured.fields)

\* The primitive re-rendered on every render of the list binding.
PrimitiveRenders_Always(storeChanged, parentRendered, stateChanged) ==
  storeChanged \/ parentRendered \/ stateChanged

\* Whether the shadow Form.List (and with it ShadowCapture) renders in a
\* pass: when its field was notified of a store change, or when the parent
\* re-rendered the binding with new props.  A pass caused only by
\* setListState re-uses the memoized Form.List element (the package is
\* built with the React Compiler), so the primitive is skipped.
PrimitiveRenders(storeChanged, parentRendered, stateChanged) ==
  storeChanged \/ parentRendered

Values == {"Main St"}
ItemNames == {Arr(<<K("address")>>), Arr(<<K("street")>>), Scalar(K("emails"))}
ListNames == {Arr(<<K("emails")>>)}
Leaves == {K("email")}
Modes == {"form", "none", "inherit"}

VARIABLES
  validator,     \* schema bound by the form-level hook (or none)
  prefix,        \* NamePrefixContext value at the current render position
  tree,          \* bindings rendered from the form root down to here
  store,         \* form store: set of [path, value] leaves
  finishCalls,   \* arguments onFinish was called with
  fieldErrors,   \* errors written with setFields
  ruleRun,       \* the last run of a field's schema rule
  list,          \* the list binding under study: its kind and name
  listValue,     \* the array value of the list in the store (item tokens)
  keyManager,    \* the primitive's keys and next key id
  produced,      \* fields the primitive produced in its last render
  listState,     \* the captured (fields, operation, meta) state
  shown,         \* handles the children callback was last rendered with
  pending,       \* scheduled work: store change, parent render, state
                 \* update, capture effect
  passes,        \* render passes since the last change
  lastOp,        \* the last change made to the list
  nodeEnv,       \* process.env.NODE_ENV of the build
  factory,       \* what createFormHook computed when the schema was bound
  opts,          \* options of the form-level hook
  field,         \* props of the field binding rendered with the hook
  console,       \* messages written with console.warn
  lastChange,    \* the last change of the field's control
  submitRun,     \* the last run of the submit handler
  calc,          \* the last application of a path helper
  debounce,      \* the refs of useDebounceCallback
  clock,         \* the time, in ticks
  changes,       \* the value changes of the form so far
  invoked,       \* the invocations of the debounced callback so far
  mounted,       \* whether the form is mounted
  table          \* useTable's state: filters, page, searches run

formVars == <<validator, prefix, tree, store, finishCalls, fieldErrors,
              ruleRun>>
listVars == <<list, listValue, keyManager, produced, listState, shown,
              pending, passes, lastOp>>
hookVars == <<nodeEnv, factory, opts, field, console, lastChange, submitRun>>
pathVars == <<calc>>
debounceVars == <<debounce, clock, changes, invoked, mounted>>
tableVars == <<table>>
extVars == <<pathVars, debounceVars, tableVars>>
vars == <<formVars, listVars, hookVars, extVars>>

NoPending == [store |-> FALSE, parent |-> FALSE, state |-> FALSE,
              effect |-> FALSE]
NoOp == [op |-> "none", arg |-> -1, before |-> <<>>, items |-> <<>>,
         count |-> 0]
NoRun == [ran |-> FALSE, fieldPath |-> <<>>, input |-> {}, ok |-> TRUE,
          message |-> ""]

\* useState initial value of the shadow FormList: no fields, operations
\* that do nothing.
InitialListState == [fields |-> <<>>, live |-> FALSE]

FormInit ==
  /\ prefix = <<>>
  /\ tree = <<>>
  /\ store = {}
  /\ finishCalls = <<>>
  /\ fieldErrors = {}
  /\ ruleRun = NoRun

NoFactory == [requiredFields |-> [defined |-> FALSE, paths |-> <<>>],
              probes |-> 0, binds |-> 0, renders |-> 0]
NoOpts == [hasOnFinish |-> TRUE, autoSubmit |-> "off", normalizeValue |-> FALSE]
NoField == [rendered |-> FALSE, declared |-> NoName, ctxPrefix |-> <<>>,
            fullPath |-> <<>>, named |-> FALSE, normalize |-> FALSE,
            schemaRule |-> FALSE,
            required |-> [defined |-> FALSE, value |-> FALSE]]
NoChange == [count |-> 0, by |-> "none", raw |-> "", stored |-> "",
             params |-> [name |-> <<>>, value |-> ""]]
NoSubmit == [ran |-> FALSE, input |-> {}, validated |-> FALSE,
             called |-> FALSE, arg |-> {}, wrote |-> FALSE, errors |-> {},
             rejected |-> FALSE, error |-> "", via |-> "none"]

\* The hook's variables in a form built without the hook under study.
HookIdle ==
  /\ nodeEnv = "test"
  /\ factory = NoFactory
  /\ opts = NoOpts
  /\ field = NoField
  /\ console = <<>>
  /\ lastChange = NoChange
  /\ submitRun = NoSubmit

NoCalc == [op |-> "none", a |-> <<>>, b |-> <<>>, equal |-> FALSE,
           out |-> <<>>, paths |-> {}]

\* useDebounceCallback's refs after the first render: no timer, no call
\* yet, nothing pending, nothing called.
NoTimer == -1
NullValue == [ref |-> 0, json |-> "<null>"]
UndefinedValue == [ref |-> 0, json |-> "<undefined>"]
InitialRefs == [timeoutRef |-> NoTimer, lastCallTimeRef |-> NoTimer,
                pendingValueRef |-> NullValue,
                lastCalledValueRef |-> UndefinedValue,
                hasLeadingCalledRef |-> FALSE]

DebounceIdle ==
  /\ debounce = InitialRefs
  /\ clock = 0
  /\ changes = <<>>
  /\ invoked = <<>>
  /\ mounted = TRUE

\* useTable's state after the first render: the filters are the form's
\* initial values, the page is the default one, and the query has run
\* the search with them.
DEFAULT_CURRENT_PAGE == 1
InitialFilters == {}
InitialTable ==
  [filters |-> InitialFilters, current |-> DEFAULT_CURRENT_PAGE,
   searches |-> <<[filters |-> InitialFilters,
                   current |-> DEFAULT_CURRENT_PAGE]>>,
   snapshots |-> <<>>, submits |-> 0]

\* The other variables in a run that does not use them.
ExtIdle ==
  /\ calc = NoCalc
  /\ DebounceIdle
  /\ table = InitialTable

ListInit ==
  /\ keyManager = [keys |-> <<>>, keyId |-> 0]
  /\ produced = <<>>
  /\ listState = InitialListState
  /\ shown = [mounted |-> FALSE, handles |-> <<>>, live |-> FALSE]
  /\ pending = NoPending
  /\ passes = 0
  /\ lastOp = NoOp

Init ==
  /\ validator \in Validators
  /\ FormInit
  /\ list = [kind |-> "shadow", name |-> Arr(<<K("emails")>>),
             path |-> <<K("emails")>>]
  /\ listValue = <<>>
  /\ ListInit
  /\ HookIdle
  /\ ExtIdle

Last == tree[Len(tree)]
Lists == {n \in 1..Len(tree) : tree[n].kind = "list"}
Rendering == store = {} /\ finishCalls = <<>> /\ fieldErrors = {}

\* The components a binding is taken from: those of the form-level hook
\* ("form"), or those of useFormInstance called by the component that
\* renders the binding, without ("none") or with ("inherit") inherit.
Instance(mode) ==
  IF mode = "form" THEN [effectivePrefix |-> <<>>, hasPrefix |-> FALSE]
  ELSE useCustomFormInstance(useFormInstanceInheritAt(mode = "inherit"),
                             prefix)

Entry(kind, mode, name, ctx, r, index) ==
  [kind |-> kind, mode |-> mode, name |-> name, ambient |-> prefix,
   ctx |-> ctx, fullPath |-> r.fullPath, provides |-> r.provides,
   childPrefix |-> r.childPrefix, index |-> index]

\* Render a FormItem as a child of the last rendered binding.
RenderFormItem(mode, name) ==
  /\ Len(tree) < MaxDepth
  /\ Rendering
  /\ name = NoName => Len(tree) = 0
  /\ LET ctx == ContextPrefix(Instance(mode), prefix)
         r == FormItem(ctx, name)
     IN /\ tree' = Append(tree, Entry("item", mode, name, ctx, r, -1))
        /\ prefix' = r.childPrefix
  /\ UNCHANGED <<ruleRun, validator, store, finishCalls, fieldErrors, listVars, extVars, hookVars>>

\* Render a FormItem inside item index of the enclosing list, named the way
\* the callers splice it: [...listName, index, leaf].
RenderSplicedItem(mode, leaf) ==
  /\ Len(tree) > 0 /\ Last.kind = "list"
  /\ RenderFormItem(mode,
       Arr(normalizeNamePath(Last.name) \o <<N(Last.index), leaf>>))

\* Render a FormList and descend into its item number index.
RenderFormList(mode, name, index) ==
  /\ Len(tree) < MaxDepth
  /\ Cardinality(Lists) < MaxLists
  /\ Rendering
  /\ LET ctx == ContextPrefix(Instance(mode), prefix)
         r == FormList(ctx, name)
     IN /\ tree' = Append(tree, Entry("list", mode, name, ctx, r, index))
        /\ prefix' = r.childPrefix
  /\ UNCHANGED <<ruleRun, validator, store, finishCalls, fieldErrors, listVars, extVars, hookVars>>

\* The user types v into the control of the last rendered field.
ChangeInput(v) ==
  /\ Len(tree) > 0 /\ Last.kind = "item" /\ Len(Last.fullPath) > 0
  /\ Rendering
  /\ store' = SetValue(store, Last.fullPath, v)
  /\ UNCHANGED <<ruleRun, validator, prefix, tree, finishCalls, fieldErrors, listVars, extVars, hookVars>>

\* The schema rules of the rendered fields, run by the store on submit.
RulesPass ==
  \/ ~validator.present
  \/ LET result == standardValidate(validator, store)
     IN \A n \in 1..Len(tree) :
          tree[n].kind = "item" => SchemaRule(result, tree[n].fullPath).ok

\* createFormHook onFinish, reached once the fields' rules passed.
Submit ==
  /\ Len(tree) > 0
  /\ finishCalls = <<>> /\ fieldErrors = {}
  /\ RulesPass
  /\ IF ~validator.present
     THEN /\ finishCalls' = Append(finishCalls, store)
          /\ UNCHANGED fieldErrors
     ELSE LET result == standardValidate(validator, store)
          IN IF result.success
             THEN /\ finishCalls' = Append(finishCalls, result.value)
                  /\ UNCHANGED fieldErrors
             ELSE /\ fieldErrors' = mapIssuesToFormErrors(result.issues)
                  /\ UNCHANGED finishCalls
  /\ UNCHANGED <<ruleRun, validator, prefix, tree, store, listVars, extVars, hookVars>>

\* The form is unmounted and mounted again.
Remount ==
  /\ Len(tree) > 0
  /\ prefix' = <<>> /\ tree' = <<>> /\ store' = {}
  /\ finishCalls' = <<>> /\ fieldErrors' = {}
  /\ UNCHANGED <<ruleRun, validator, listVars, extVars, hookVars>>

(***************************************************************************)
(* The list binding at run time: render passes, the capture effect and the *)
(* operations the children invoke.                                         *)
(***************************************************************************)
Settled == shown.mounted /\ pending = NoPending

Changed(op, arg) ==
  /\ lastOp' = [op |-> op, arg |-> arg, before |-> keyManager.keys,
                items |-> listValue, count |-> lastOp.count + 1]
  /\ passes' = 0

\* One render pass: the primitive and/or the list binding render, the
\* children callback is called, the capture effect is scheduled.
ListRenderPass ==
  /\ ~pending.effect
  /\ ~shown.mounted \/ pending.store \/ pending.parent \/ pending.state
  /\ passes < MaxPasses
  /\ LET primRenders ==
           \/ ~shown.mounted
           \/ list.kind = "helper"
           \/ PrimitiveRenders(pending.store, pending.parent, pending.state)
         ownerRenders == ~shown.mounted \/ pending.parent \/ pending.state
         km == IF primRenders
               THEN FillKeys(keyManager.keys, keyManager.keyId, Len(listValue))
               ELSE keyManager
         fields == IF primRenders THEN PrimitiveFields(Len(listValue), km.keys)
                   ELSE produced
     IN /\ keyManager' = km
        /\ produced' = fields
        /\ IF list.kind = "shadow"
           THEN /\ shown' = IF ownerRenders
                            THEN [mounted |-> TRUE,
                                  handles |-> ChildrenFields(listState, fields),
                                  live |-> listState.live]
                            ELSE shown
                /\ pending' = [NoPending EXCEPT !.effect = primRenders]
           ELSE /\ shown' = [mounted |-> TRUE,
                             handles |-> HelperHandles(list.path, fields),
                             live |-> TRUE]
                /\ pending' = NoPending
  /\ passes' = passes + 1
  /\ UNCHANGED <<extVars, hookVars, formVars, list, listValue, listState, lastOp>>

\* ShadowCapture's effect: onCapture({fields, operation, meta}).
ListRunEffect ==
  /\ pending.effect
  /\ listState' = [fields |-> produced, live |-> TRUE]
  /\ pending' = [pending EXCEPT !.effect = FALSE, !.state = TRUE]
  /\ UNCHANGED <<extVars, hookVars, formVars, list, listValue, keyManager, produced, shown,
                 passes, lastOp>>

CanChange == shown.mounted /\ lastOp.count < MaxOps
ShownNames == {shown.handles[n].name : n \in 1..Len(shown.handles)}

\* An operation of the initial list state is invoked: it does nothing.
ListNoopOperation ==
  /\ CanChange /\ ~shown.live
  /\ lastOp' = [lastOp EXCEPT !.op = "noop", !.count = @ + 1]
  /\ UNCHANGED <<extVars, hookVars, formVars, list, listValue, keyManager, produced, listState,
                 shown, pending, passes>>

\* The children call add().
ListAdd ==
  /\ CanChange /\ shown.live
  /\ Len(listValue) < MaxItems
  /\ listValue' = Append(listValue, 10 + lastOp.count)
  /\ keyManager' = [keys |-> Append(keyManager.keys, keyManager.keyId),
                    keyId |-> keyManager.keyId + 1]
  /\ pending' = [pending EXCEPT !.store = TRUE]
  /\ Changed("add", -1)
  /\ UNCHANGED <<extVars, hookVars, formVars, list, produced, listState, shown>>

\* The children call remove(index) with the index of a handle they hold.
ListRemove(index) ==
  /\ CanChange /\ shown.live
  /\ index \in ShownNames
  /\ listValue' = RemoveAt(listValue, index)
  /\ keyManager' = [keyManager EXCEPT !.keys = RemoveAt(@, index)]
  /\ pending' = [pending EXCEPT !.store = TRUE]
  /\ Changed("remove", index)
  /\ UNCHANGED <<extVars, hookVars, formVars, list, produced, listState, shown>>

\* The children call move(from, to).
ListMove(from, to) ==
  /\ CanChange /\ shown.live
  /\ from \in ShownNames /\ to \in ShownNames /\ from # to
  /\ from < Len(listValue) /\ to < Len(listValue)
  /\ listValue' = MoveIn(listValue, from, to)
  /\ keyManager' = [keyManager EXCEPT !.keys = MoveIn(@, from, to)]
  /\ pending' = [pending EXCEPT !.store = TRUE]
  /\ Changed("move", from)
  /\ UNCHANGED <<extVars, hookVars, formVars, list, produced, listState, shown>>

\* The array value is replaced from outside the list (setFieldValue).
ListExternalChange(grow) ==
  /\ CanChange
  /\ IF grow THEN /\ Len(listValue) < MaxItems
                  /\ listValue' = Append(listValue, 10 + lastOp.count)
             ELSE /\ Len(listValue) > 0
                  /\ listValue' = SubSeq(listValue, 1, Len(listValue) - 1)
  /\ pending' = [pending EXCEPT !.store = TRUE]
  /\ Changed("external", -1)
  /\ UNCHANGED <<extVars, hookVars, formVars, list, keyManager, produced, listState, shown>>

\* The parent re-renders the list binding with new props.
ListParentRender ==
  /\ CanChange
  /\ pending' = [pending EXCEPT !.parent = TRUE]
  /\ Changed("parent", -1)
  /\ UNCHANGED <<extVars, hookVars, formVars, list, listValue, keyManager, produced, listState,
                 shown>>

OuterPrefixes == {<<>>, <<K("address")>>}
InitialValues == {<<>>, <<1, 2>>}

ListBindings ==
  {[kind |-> "shadow", name |-> name, path |-> FormList(ctx, name).fullPath] :
     name \in ListNames \cup {Scalar(K("emails"))}, ctx \in OuterPrefixes}
  \cup {[kind |-> "helper", name |-> name, path |-> HelperListPath(name)] :
     name \in ListNames \cup {Scalar(K("emails"))}}

InitList ==
  /\ validator = NoValidator
  /\ FormInit
  /\ list \in ListBindings
  /\ listValue \in InitialValues
  /\ ListInit
  /\ HookIdle
  /\ ExtIdle

NextList ==
  \/ ListRenderPass
  \/ ListRunEffect
  \/ ListNoopOperation
  \/ ListAdd
  \/ \E index \in 0..MaxItems : ListRemove(index)
  \/ \E from \in 0..MaxItems, to \in 0..MaxItems : ListMove(from, to)
  \/ \E grow \in BOOLEAN : ListExternalChange(grow)
  \/ ListParentRender

SpecList == InitList /\ [][NextList]_vars

(***************************************************************************)
(* The schema rule of a field, run on its own (validateTrigger).           *)
(***************************************************************************)
EmailAt(n) == <<K("emails"), N(n), K("email")>>
RuleFields == {EmailAt(0), EmailAt(1), <<K("name")>>}

\* Issues a bound schema may report: at the field, at the field with every
\* segment wrapped in {key}, at a sibling, an ancestor, a descendant, and
\* without a path.
IssuePool ==
  {[hasPath |-> TRUE, path |-> EmailAt(0), message |-> "at field",
    unless |-> EmailAt(0)],
   [hasPath |-> TRUE, path |-> <<W(K("emails")), W(N(0)), W(K("email"))>>,
    message |-> "at wrapped field", unless |-> EmailAt(0)],
   [hasPath |-> TRUE, path |-> EmailAt(1), message |-> "at sibling",
    unless |-> EmailAt(1)],
   [hasPath |-> TRUE, path |-> <<K("emails")>>, message |-> "at ancestor",
    unless |-> <<K("name")>>],
   [hasPath |-> TRUE, path |-> EmailAt(0) \o <<K("domain")>>,
    message |-> "at descendant", unless |-> <<K("name")>>],
   [hasPath |-> FALSE, path |-> <<>>, message |-> "no path",
    unless |-> <<K("name")>>]}

RECURSIVE SeqsUpTo(_, _)
SeqsUpTo(S, n) ==
  IF n = 0 THEN {<<>>}
  ELSE LET shorter == SeqsUpTo(S, n - 1)
       IN shorter \cup {Append(q, x) : q \in shorter, x \in S}

RuleSchemas ==
  {[present |-> TRUE, required |-> <<>>, known |-> {<<>>}, message |-> "",
    rejects |-> rejects, async |-> FALSE, throws |-> FALSE,
    coerce |-> FALSE] : rejects \in SeqsUpTo(IssuePool, MaxIssues)}

\* A control writes v at a field's path.
SetFieldValue(path, v) ==
  /\ path \in RuleFields
  /\ store' = SetValue(store, path, v)
  /\ ruleRun' = NoRun
  /\ UNCHANGED <<validator, prefix, tree, finishCalls, fieldErrors, listVars, extVars, hookVars>>

\* The store runs the schema rule of the field bound at fieldPath.
ValidateField(fieldPath) ==
  /\ fieldPath \in RuleFields
  /\ validator.present
  /\ LET allValues == store
         run == SchemaRule(standardValidate(validator, allValues), fieldPath)
     IN ruleRun' = [ran |-> TRUE, fieldPath |-> fieldPath,
                    input |-> allValues, ok |-> run.ok,
                    message |-> run.message]
  /\ UNCHANGED <<validator, prefix, tree, store, finishCalls, fieldErrors,
                 listVars, extVars, hookVars>>

InitRule ==
  /\ validator \in RuleSchemas
  /\ FormInit
  /\ list = [kind |-> "shadow", name |-> Arr(<<K("emails")>>),
             path |-> <<K("emails")>>]
  /\ listValue = <<>>
  /\ ListInit
  /\ HookIdle
  /\ ExtIdle

NextRule ==
  \/ \E path \in RuleFields, v \in Values : SetFieldValue(path, v)
  \/ \E fieldPath \in RuleFields : ValidateField(fieldPath)

SpecRule == InitRule /\ [][NextRule]_vars

(***************************************************************************)
(* A form built with the form-level hook and one field binding.            *)
(***************************************************************************)
PersonSchema == [present |-> TRUE,
                 required |-> << <<K("name")>>, <<K("age")>> >>,
                 known |-> { <<K("name")>>, <<K("age")>> },
                 message |-> "Required", rejects |-> <<>>,
                 async |-> FALSE, throws |-> FALSE, coerce |-> TRUE]
OptionalSchema == [present |-> TRUE, required |-> <<>>, known |-> {<<>>},
                   message |-> "", rejects |-> <<>>,
                   async |-> FALSE, throws |-> FALSE, coerce |-> FALSE]
WrappedSchema ==
  [present |-> TRUE, required |-> <<>>, known |-> {<<>>}, message |-> "",
   rejects |-> <<[hasPath |-> FALSE, path |-> <<>>,
                  message |-> "Form invalid", unless |-> <<K("name")>>],
                 [hasPath |-> TRUE, path |-> <<W(K("name"))>>,
                  message |-> "Required", unless |-> <<K("name")>>]>>,
   async |-> FALSE, throws |-> FALSE, coerce |-> FALSE]
AsyncSchema == [PersonSchema EXCEPT !.async = TRUE]
ThrowingSchema == [OptionalSchema EXCEPT !.throws = TRUE]
HookSchemas == {NoValidator, PersonSchema, UserSchema, OptionalSchema,
                WrappedSchema, AsyncSchema, ThrowingSchema}

HookValues == {"Alice", "30", "", Poison}
HookNames == {NoName, Scalar(K("name")), Arr(<<K("age")>>)}
HookPrefixes == {<<>>, <<K("address")>>}
HookStores == {{}, {[path |-> <<K("name")>>, value |-> "Alice"]}}
HookOptions ==
  {o \in [hasOnFinish : BOOLEAN, autoSubmit : {"off", "auto"},
          normalizeValue : BOOLEAN] :
     o.hasOnFinish \/ (o.autoSubmit = "off" /\ ~o.normalizeValue)}
NodeEnvs == {"development", "production"}
\* The builds and schemas a form is bound with: the build matters to the
\* probe of an asynchronous schema only.
HookBindings ==
  {b \in [validator : HookSchemas, nodeEnv : NodeEnvs] :
     b.nodeEnv = "development" \/ b.validator.async}

\* What the field bindings read from FormContext.
Context ==
  [validator |-> validator, requiredFields |-> factory.requiredFields,
   normalizeValue |-> opts.normalizeValue]

\* The field binding re-rendered with the current context.
Rerendered(requiredFields) ==
  IF field.rendered
  THEN FormItemProps(field.ctxPrefix, field.declared, field.normalize,
                     [Context EXCEPT !.requiredFields = requiredFields])
  ELSE field

\* A hook that creates FormItem and FormList in its body, on every render.
useFormReturn_CreatedPerRender(f) ==
  [Form |-> 1, FormItem |-> f.binds + f.renders,
   FormList |-> f.binds + f.renders]

\* What useForm returns, by identity.  FormItem and FormList are created
\* in the body of createFormHook, so they are those of the call that made
\* the factory in factoryRef (calls are numbered by binds); Form is the
\* function kept in FormRef since the first render of the host.
useFormReturn(f) ==
  [Form |-> 1, FormItem |-> f.binds, FormList |-> f.binds]

\* A useForm that creates its factory on every render.
HookRender_ProbesAgain ==
  /\ factory.renders < MaxRenders
  /\ factory' = [factory EXCEPT !.renders = @ + 1,
                                !.probes = @ + (IF validator.present THEN 1
                                                ELSE 0)]
  /\ field' = Rerendered(factory.requiredFields)
  /\ UNCHANGED <<formVars, listVars, extVars, nodeEnv, opts, console, lastChange,
                 submitRun>>

\* useForm renders again with the same validator reference: the factory
\* of the first render is re-used.
HookRender ==
  /\ factory.renders < MaxRenders
  /\ factory' = [factory EXCEPT !.renders = @ + 1]
  /\ field' = Rerendered(factory.requiredFields)
  /\ UNCHANGED <<formVars, listVars, extVars, nodeEnv, opts, console, lastChange,
                 submitRun>>

\* useForm renders with a new validator reference: createFormHook runs
\* again and probes the schema again.
HookRebind ==
  /\ factory.binds < MaxBinds
  /\ LET r == requiredFieldsOf(validator)
     IN /\ factory' = [requiredFields |-> r,
                       probes |-> factory.probes + (IF r.probed THEN 1 ELSE 0),
                       binds |-> factory.binds + 1,
                       renders |-> factory.renders]
        /\ console' = IF r.warned
                      THEN warning(AsyncProbeMessage, nodeEnv, console)
                      ELSE console
        /\ field' = Rerendered(r)
  /\ UNCHANGED <<formVars, listVars, extVars, nodeEnv, opts, lastChange, submitRun>>

\* A FormItem of the hook is rendered under the prefix ctxPrefix.
HookRenderField(ctxPrefix, name, normalize) ==
  /\ ~field.rendered
  /\ field' = FormItemProps(ctxPrefix, name, normalize, Context)
  /\ UNCHANGED <<formVars, listVars, extVars, nodeEnv, factory, opts, console,
                 lastChange, submitRun>>

\* The submit handler ran: its effects on the caller and on the store.
ApplyFinish(run, via) ==
  /\ submitRun' = [run EXCEPT !.via = via]
  /\ finishCalls' = IF run.called THEN Append(finishCalls, run.arg)
                    ELSE finishCalls
  /\ fieldErrors' = IF run.wrote THEN run.errors ELSE fieldErrors

\* The user changes the field's control to v; with autoSubmit the form's
\* onValuesChange hands all values to the submit handler.
HookChange(v) ==
  /\ field.rendered
  /\ lastChange.count < MaxChanges
  /\ Len(finishCalls) < MaxCalls
  /\ LET n == resolvedNormalize(field.normalize, opts.normalizeValue,
                                field.fullPath, v)
         allValues == SetValue(store, field.fullPath, n.value)
     IN /\ store' = allValues
        /\ lastChange' = [count |-> lastChange.count + 1, by |-> n.by,
                          raw |-> v, stored |-> n.value, params |-> n.params]
        /\ IF opts.autoSubmit = "auto"
           THEN ApplyFinish(onFinish(opts.hasOnFinish, validator, allValues),
                            "auto")
           ELSE UNCHANGED <<finishCalls, fieldErrors, submitRun>>
  /\ ruleRun' = NoRun
  /\ UNCHANGED <<validator, prefix, tree, listVars, extVars, nodeEnv, factory, opts,
                 field, console>>

\* The form is submitted: the store runs the schema rule of the field
\* and, when it passes, calls the submit handler with the values.
HookSubmit ==
  /\ Len(finishCalls) < MaxCalls
  /\ LET hasRule == field.rendered /\ field.schemaRule
         rules == IF hasRule
                  THEN SchemaRule(standardValidate(validator, store),
                                  field.fullPath)
                  ELSE [ok |-> TRUE, message |-> ""]
     IN /\ ruleRun' = IF hasRule
                      THEN [ran |-> TRUE, fieldPath |-> field.fullPath,
                            input |-> store, ok |-> rules.ok,
                            message |-> rules.message]
                      ELSE NoRun
        /\ IF rules.ok
           THEN ApplyFinish(onFinish(opts.hasOnFinish, validator, store),
                            "manual")
           ELSE /\ fieldErrors' = {[hasName |-> TRUE, name |-> field.fullPath,
                                    errors |-> rules.message]}
                /\ submitRun' = [NoSubmit EXCEPT !.via = "blocked"]
                /\ UNCHANGED finishCalls
  /\ UNCHANGED <<validator, prefix, tree, store, listVars, extVars, nodeEnv,
                 factory, opts, field, console, lastChange>>

InitHook ==
  /\ \E b \in HookBindings : validator = b.validator /\ nodeEnv = b.nodeEnv
  /\ prefix = <<>> /\ tree = <<>>
  /\ store \in HookStores
  /\ finishCalls = <<>> /\ fieldErrors = {} /\ ruleRun = NoRun
  /\ list = [kind |-> "shadow", name |-> Arr(<<K("emails")>>),
             path |-> <<K("emails")>>]
  /\ listValue = <<>>
  /\ ListInit
  /\ opts \in HookOptions
  /\ LET r == requiredFieldsOf(validator)
     IN /\ factory = [requiredFields |-> r,
                      probes |-> IF r.probed THEN 1 ELSE 0,
                      binds |-> 1, renders |-> 0]
        /\ console = IF r.warned
                     THEN warning(AsyncProbeMessage, nodeEnv, <<>>)
                     ELSE <<>>
  /\ field = NoField
  /\ lastChange = NoChange
  /\ submitRun = NoSubmit
  /\ ExtIdle

NextHook ==
  \/ HookRender
  \/ HookRebind
  \/ \E ctxPrefix \in HookPrefixes, name \in HookNames, normalize \in BOOLEAN :
       HookRenderField(ctxPrefix, name, normalize)
  \/ \E v \in HookValues : HookChange(v)
  \/ HookSubmit

SpecHook == InitHook /\ [][NextHook]_vars

(***************************************************************************)
(* The path helpers applied to arbitrary arguments.  An argument is null   *)
(* / undefined (Absent) or an array, which has an identity (ref) besides   *)
(* its segments: two arrays with the same segments are different objects.  *)
(***************************************************************************)
Absent == [given |-> FALSE, ref |-> 0, segs |-> <<>>]
ArrayRef(ref, segs) == [given |-> TRUE, ref |-> ref, segs |-> segs]

\* A comparison that treats an absent path as the empty path.
arePathsEqualNullable_AbsentIsEmpty(a, b) == arePathsEqual(a.segs, b.segs)

\* path-segments.ts arePathsEqual with its first line: false when either
\* argument is null or undefined (an empty array is not).
arePathsEqualNullable(a, b) ==
  IF ~a.given \/ ~b.given THEN FALSE ELSE arePathsEqual(a.segs, b.segs)

\* A composition that always builds a new array.
buildFullPathRef_Copies(prefixArg, namePath, fresh) ==
  ArrayRef(fresh, prefixArg.segs \o namePath.segs)

\* NamePrefixContext buildFullPath on arrays with identity: namePath
\* itself under an empty prefix, otherwise the new array
\* [...prefix, ...namePath].
buildFullPathRef(prefixArg, namePath, fresh) ==
  IF Len(prefixArg.segs) = 0 THEN namePath
  ELSE ArrayRef(fresh, buildFullPath(prefixArg.segs, namePath.segs))

\* Segments and paths the helpers are applied to: string keys, a numeric
\* index and the same index wrapped in a {key} object.
PathSegments == {K("a"), K("b"), N(2), W(N(2))}
PathPool == SeqsUpTo(PathSegments, MaxDepth)
\* Paths a path is compared with: none, itself, itself unwrapped or
\* wrapped, itself without its last segment, with one more segment, and
\* with its last segment replaced.
ComparedWith(path) ==
  {path, normalizePath(path), [n \in 1..Len(path) |-> W(path[n])]}
    \cup (IF path = <<>> THEN {}
          ELSE {SubSeq(path, 1, Len(path) - 1)}
                 \cup {[path EXCEPT ![Len(path)] = x] : x \in PathSegments})
    \cup {Append(path, x) : x \in PathSegments}
Prefixes == {<<>>, <<K("a")>>, <<K("a"), W(N(2))>>}
FreshRef == 3

Applied(op, a, b, equal, out) ==
  [op |-> op, a |-> a, b |-> b, equal |-> equal, out |-> out, paths |-> {}]

\* Value shapes (the types the path types are derived from): a primitive,
\* an array of an item shape, or an object with keyed fields.  The item
\* of an array sits under the `number` position.
NumberType == [k |-> "", i |-> -1, w |-> FALSE]
Primitive == [kind |-> "leaf", fields |-> <<>>]
ArrayOf(item) ==
  [kind |-> "array", fields |-> <<[key |-> NumberType, shape |-> item]>>]
ObjectOf(fields) == [kind |-> "object", fields |-> fields]
ItemOf(T) == T.fields[1].shape

\* The path types of the older helper package: nothing for an array.
RECURSIVE InnerPathsTuple_NoArrays(_, _)
InnerPathsTuple_NoArrays(T, Prefix) ==
  IF T.kind = "leaf" \/ T.kind = "array" THEN {}
  ELSE UNION {{Append(Prefix, T.fields[n].key)}
                \cup InnerPathsTuple_NoArrays(T.fields[n].shape,
                                              Append(Prefix, T.fields[n].key)) :
              n \in 1..Len(T.fields)}

\* path-types InnerPathsTuple<T, Prefix>: never for a primitive; for an
\* array Prefix, [...Prefix, number] and the paths of the item under
\* [...Prefix, number]; for an object, per key K, [...Prefix, K] and the
\* paths of T[K] under [...Prefix, K].
RECURSIVE InnerPathsTuple(_, _)
InnerPathsTuple(T, Prefix) ==
  IF T.kind = "leaf" THEN {}
  ELSE IF T.kind = "array"
  THEN {Prefix, Append(Prefix, NumberType)}
         \cup InnerPathsTuple(ItemOf(T), Append(Prefix, NumberType))
  ELSE UNION {{Append(Prefix, T.fields[n].key)}
                \cup InnerPathsTuple(T.fields[n].shape,
                                     Append(Prefix, T.fields[n].key)) :
              n \in 1..Len(T.fields)}

\* The shapes the types are derived for: nesting up to MaxShapeDepth, an
\* object having no key, one key, or a key and a primitive sibling.
ShapeKeys == {K("user"), K("emails"), K("addr")}
Around(t) ==
  {ArrayOf(t),
   ObjectOf(<<[key |-> K("user"), shape |-> t],
              [key |-> K("id"), shape |-> Primitive]>>)}
    \cup {ObjectOf(<<[key |-> k, shape |-> t]>>) : k \in ShapeKeys}
RECURSIVE Shapes(_)
Shapes(d) ==
  IF d = 0 THEN {Primitive}
  ELSE {Primitive, ObjectOf(<<>>)} \cup UNION {Around(t) : t \in Shapes(d - 1)}
ShapePool == Shapes(MaxShapeDepth)

\* InnerPathsTuple<T> is derived for a shape T.
ApplyInnerPathsTuple(T) ==
  /\ calc = NoCalc
  /\ calc' = [Applied("InnerPathsTuple", T, <<>>, FALSE, Absent)
                EXCEPT !.paths = InnerPathsTuple(T, <<>>)]
  /\ UNCHANGED <<formVars, listVars, hookVars, debounceVars, tableVars>>

\* arePathsEqual(a, b) is called.
ApplyArePathsEqual(a, b) ==
  /\ calc = NoCalc
  /\ calc' = Applied("arePathsEqual", a, b, arePathsEqualNullable(a, b),
                     Absent)
  /\ UNCHANGED <<formVars, listVars, hookVars, debounceVars, tableVars>>

\* buildFullPath(prefix, namePath) is called.
ApplyBuildFullPath(prefixArg, namePath) ==
  /\ calc = NoCalc
  /\ calc' = Applied("buildFullPath", prefixArg, namePath, FALSE,
                     buildFullPathRef(prefixArg, namePath, FreshRef))
  /\ UNCHANGED <<formVars, listVars, hookVars, debounceVars, tableVars>>

InitPath ==
  /\ validator = NoValidator
  /\ FormInit
  /\ list = [kind |-> "shadow", name |-> Arr(<<K("emails")>>),
             path |-> <<K("emails")>>]
  /\ listValue = <<>>
  /\ ListInit
  /\ HookIdle
  /\ ExtIdle

NextPath ==
  \/ \E a \in PathPool :
       \/ \E b \in ComparedWith(a) :
            ApplyArePathsEqual(ArrayRef(1, a), ArrayRef(2, b))
       \/ ApplyArePathsEqual(ArrayRef(1, a), Absent)
       \/ ApplyArePathsEqual(Absent, ArrayRef(2, a))
  \/ ApplyArePathsEqual(Absent, Absent)
  \/ \E p \in Prefixes, r \in PathPool :
       ApplyBuildFullPath(ArrayRef(1, p), ArrayRef(2, r))
  \/ \E T \in ShapePool : ApplyInnerPathsTuple(T)

SpecPath == InitPath /\ [][NextPath]_vars

(***************************************************************************)
(* useDebounceCallback as auto-submit uses it.  Time is counted in ticks   *)
(* and a timer runs at its deadline, before anything else that happens at  *)
(* that time.  A value is the object passed to the debounced function: it  *)
(* has an identity (ref) and its serialization (json).                     *)
(***************************************************************************)
DebounceTicks == 2
AutoSubmitDebounce == [delay |-> DebounceTicks, leading |-> TRUE,
                       trailing |-> TRUE, equalityFn |-> TRUE]

\* createFormHook's equalityFn: JSON.stringify(a) === JSON.stringify(b).
equalityFn(left, right) == left.json = right.json

Outcome(refs, calls) == [refs |-> refs, calls |-> calls]

\* invokeCallback without the equality check.
invokeCallback_AlwaysCalls(refs, options, value) ==
  Outcome([refs EXCEPT !.lastCalledValueRef = value], <<value>>)

\* invokeCallback(value): nothing when an equality function is given, a
\* value was called before and the two are equal; otherwise the value is
\* remembered and the callback called with it.
invokeCallback(refs, options, value) ==
  IF /\ options.equalityFn
     /\ refs.lastCalledValueRef # UndefinedValue
     /\ equalityFn(refs.lastCalledValueRef, value)
  THEN Outcome(refs, <<>>)
  ELSE Outcome([refs EXCEPT !.lastCalledValueRef = value], <<value>>)

\* A debounced function that leads on every call.
debouncedFn_AlwaysLeads(refs, options, value, now) ==
  LET led == invokeCallback([refs EXCEPT !.lastCallTimeRef = now,
                                         !.pendingValueRef = value,
                                         !.hasLeadingCalledRef = TRUE],
                            options, value)
  IN Outcome([led.refs EXCEPT !.timeoutRef = now + options.delay], led.calls)

\* debouncedFn(value): the value becomes the pending one, the running
\* timer is cleared, the callback is invoked on the leading edge (the
\* first call of a cycle), and the trailing timer is started.
debouncedFn(refs, options, value, now) ==
  LET isFirstCall == refs.lastCallTimeRef = NoTimer
      stored == [refs EXCEPT !.lastCallTimeRef = now,
                             !.pendingValueRef = value,
                             !.timeoutRef = NoTimer]
      led == IF options.leading /\ (isFirstCall \/ ~refs.hasLeadingCalledRef)
             THEN invokeCallback([stored EXCEPT !.hasLeadingCalledRef = TRUE],
                                 options, value)
             ELSE Outcome(stored, <<>>)
  IN Outcome([led.refs EXCEPT !.timeoutRef = now + options.delay], led.calls)

\* A timer callback that never invokes on the trailing edge.
timeoutCallback_NoTrailing(refs, options) ==
  Outcome([refs EXCEPT !.timeoutRef = NoTimer, !.pendingValueRef = NullValue,
                       !.hasLeadingCalledRef = FALSE,
                       !.lastCallTimeRef = NoTimer], <<>>)

\* The callback of the trailing timer: the pending value is invoked when
\* it was not just invoked on the leading edge, and the cycle is reset.
timeoutCallback(refs, options) ==
  LET pendingValue == refs.pendingValueRef
      shouldInvoke ==
        \/ ~options.leading
        \/ ~refs.hasLeadingCalledRef
        \/ IF options.equalityFn
           THEN ~equalityFn(refs.lastCalledValueRef, pendingValue)
           ELSE refs.lastCalledValueRef # pendingValue
      trailed == IF options.trailing /\ pendingValue # NullValue /\ shouldInvoke
                 THEN invokeCallback([refs EXCEPT !.timeoutRef = NoTimer],
                                     options, pendingValue)
                 ELSE Outcome([refs EXCEPT !.timeoutRef = NoTimer], <<>>)
  IN Outcome([trailed.refs EXCEPT !.pendingValueRef = NullValue,
                                  !.hasLeadingCalledRef = FALSE,
                                  !.lastCallTimeRef = NoTimer],
             trailed.calls)

\* clearTimers, the cleanup of the unmount effect.
clearTimers(refs) == [refs EXCEPT !.timeoutRef = NoTimer]

\* The values of the form: what it holds before any change, and what the
\* user can change it to.
InitialJson == "{}"
ChangedJson == {"t", "te", "tes"}
FormJson == IF changes = <<>> THEN InitialJson
            ELSE changes[Len(changes)].value.json
TimerDue == debounce.timeoutRef # NoTimer /\ debounce.timeoutRef <= clock

Invocations(calls, edge) ==
  [n \in 1..Len(calls) |-> [value |-> calls[n], at |-> clock, edge |-> edge]]

\* A control reports a change: the store calls onValuesChange, without
\* comparing the values with the previous ones, and onValuesChange hands
\* all values, a new object, to debouncedFinish.
DebounceChange(json) ==
  /\ mounted /\ ~TimerDue
  /\ Len(changes) < MaxBurst
  /\ LET value == [ref |-> Len(changes) + 1, json |-> json]
         r == debouncedFn(debounce, AutoSubmitDebounce, value, clock)
     IN /\ debounce' = r.refs
        /\ invoked' = invoked \o Invocations(r.calls, "leading")
        /\ changes' = Append(changes, [value |-> value, at |-> clock])
  /\ UNCHANGED <<formVars, listVars, hookVars, pathVars, tableVars, clock, mounted>>

\* The trailing timer runs at its deadline.
DebounceTimeout ==
  /\ TimerDue
  /\ LET r == timeoutCallback(debounce, AutoSubmitDebounce)
     IN /\ debounce' = r.refs
        /\ invoked' = invoked \o Invocations(r.calls, "trailing")
  /\ UNCHANGED <<formVars, listVars, hookVars, pathVars, tableVars, clock, changes,
                 mounted>>

\* Time passes, up to the deadline of a running timer.
DebounceTick ==
  /\ ~TimerDue
  /\ clock < MaxTime
  /\ clock' = clock + 1
  /\ UNCHANGED <<formVars, listVars, hookVars, pathVars, tableVars, debounce, changes,
                 invoked, mounted>>

\* The form is unmounted: the effect's cleanup clears the timers.
DebounceUnmount ==
  /\ mounted
  /\ mounted' = FALSE
  /\ debounce' = clearTimers(debounce)
  /\ UNCHANGED <<formVars, listVars, hookVars, pathVars, tableVars, clock, changes,
                 invoked>>

InitDebounce ==
  /\ validator = NoValidator
  /\ FormInit
  /\ list = [kind |-> "shadow", name |-> Arr(<<K("emails")>>),
             path |-> <<K("emails")>>]
  /\ listValue = <<>>
  /\ ListInit
  /\ HookIdle
  /\ ExtIdle

NextDebounce ==
  \/ \E json \in ChangedJson : DebounceChange(json)
  \/ DebounceTimeout
  \/ DebounceTick
  \/ DebounceUnmount

SpecDebounce == InitDebounce /\ [][NextDebounce]_vars

(***************************************************************************)
(* useTable: a form built with useForm whose submitted values are the      *)
(* filters of a search.  The form has one control; time and the debounce   *)
(* timer are those of useDebounceCallback.                                 *)
(***************************************************************************)
\* The schema of the products example: optional fields, the prices coerced
\* to numbers.
ProductsSchema ==
  [present |-> TRUE, required |-> <<>>,
   known |-> { <<K("search")>>, <<K("minPrice")>> },
   message |-> "", rejects |-> <<>>,
   async |-> FALSE, throws |-> FALSE, coerce |-> TRUE]
TableSchemas == {NoValidator, ProductsSchema, PersonSchema}
TableNames == {Arr(<<K("minPrice")>>), Scalar(K("name"))}
TableValues == {"30", "tv"}
TableOptions ==
  [hasOnFinish : BOOLEAN, autoSubmit : {"off", "auto"},
   normalizeValue : {FALSE}]
Pages == {1, 2}

\* JSON.stringify of the form's values.  The form has one control, so the
\* text of its only leaf tells the serializations apart.
stringify(values) ==
  IF values = {} THEN InitialJson
  ELSE (CHOOSE e \in values : TRUE).value

\* The query of useQuery: its key holds searchProps, so the search runs
\* when the filters or the page differ from those of the last run.
Queried(t) ==
  LET searchProps == [filters |-> t.filters, current |-> t.current]
  IN IF t.searches[Len(t.searches)] = searchProps THEN t
     ELSE [t EXCEPT !.searches = Append(@, searchProps)]

\* useTable's onFinish, the one in the formProps it returns: the values
\* it is called with become the filters, the page is reset to 1, and the
\* caller's onFinish, if any, is called with the same values.
tableOnFinish(t, hasOnFinish, values) ==
  [table |-> Queried([t EXCEPT !.filters = values, !.current = 1,
                               !.submits = @ + 1]),
   run |-> [ran |-> TRUE, input |-> values, validated |-> FALSE,
            called |-> hasOnFinish,
            arg |-> IF hasOnFinish THEN values ELSE {},
            wrote |-> FALSE, errors |-> {}, rejected |-> FALSE,
            error |-> "", via |-> "handler"]]

\* The calls of the debounced callback reach useForm's own onFinish, the
\* one debouncedFinish was created with.
TableAutoFinish(calls, snapshots) ==
  IF calls = <<>>
  THEN UNCHANGED <<finishCalls, fieldErrors, submitRun>>
  ELSE ApplyFinish(onFinish(opts.hasOnFinish, validator,
                            snapshots[calls[1].ref]), "auto")

\* The user changes the control to v.  In auto mode the form's
\* onValuesChange hands all values to debouncedFinish.
TableChange(v) ==
  /\ ~TimerDue
  /\ Len(changes) < MaxEdits
  /\ LET allValues == SetValue(store, field.fullPath, v)
         value == [ref |-> Len(changes) + 1, json |-> stringify(allValues)]
         snapshots == Append(table.snapshots, allValues)
     IN /\ store' = allValues
        /\ changes' = Append(changes, [value |-> value, at |-> clock])
        /\ table' = [table EXCEPT !.snapshots = snapshots]
        /\ IF opts.autoSubmit = "auto"
           THEN LET r == debouncedFn(debounce, AutoSubmitDebounce, value,
                                     clock)
                IN /\ debounce' = r.refs
                   /\ invoked' = invoked \o Invocations(r.calls, "leading")
                   /\ TableAutoFinish(r.calls, snapshots)
           ELSE UNCHANGED <<debounce, invoked, finishCalls, fieldErrors,
                            submitRun>>
  /\ ruleRun' = NoRun
  /\ UNCHANGED <<validator, prefix, tree, listVars, pathVars, nodeEnv,
                 factory, opts, field, console, lastChange, clock, mounted>>

\* The trailing timer of debouncedFinish runs at its deadline.
TableTimeout ==
  /\ TimerDue
  /\ LET r == timeoutCallback(debounce, AutoSubmitDebounce)
     IN /\ debounce' = r.refs
        /\ invoked' = invoked \o Invocations(r.calls, "trailing")
        /\ TableAutoFinish(r.calls, table.snapshots)
  /\ UNCHANGED <<validator, prefix, tree, store, ruleRun, listVars, pathVars,
                 nodeEnv, factory, opts, field, console, lastChange, clock,
                 changes, mounted, table>>

\* Time passes while the timer runs, up to its deadline.
TableTick ==
  /\ debounce.timeoutRef # NoTimer /\ ~TimerDue
  /\ clock < MaxTime
  /\ clock' = clock + 1
  /\ UNCHANGED <<formVars, listVars, hookVars, pathVars, tableVars, debounce,
                 changes, invoked, mounted>>

\* The form is submitted with a button: the store runs the schema rule of
\* the field and, when it passes, calls the onFinish of the form's props,
\* which is useTable's, with the values of the store.
TableSubmit ==
  /\ table.submits < MaxSubmits
  /\ LET hasRule == field.schemaRule
         rules == IF hasRule
                  THEN SchemaRule(standardValidate(validator, store),
                                  field.fullPath)
                  ELSE [ok |-> TRUE, message |-> ""]
     IN /\ ruleRun' = IF hasRule
                      THEN [ran |-> TRUE, fieldPath |-> field.fullPath,
                            input |-> store, ok |-> rules.ok,
                            message |-> rules.message]
                      ELSE NoRun
        /\ IF rules.ok
           THEN LET done == tableOnFinish(table, opts.hasOnFinish, store)
                IN /\ table' = done.table
                   /\ ApplyFinish(done.run, "manual")
           ELSE /\ fieldErrors' = {[hasName |-> TRUE, name |-> field.fullPath,
                                    errors |-> rules.message]}
                /\ submitRun' = [NoSubmit EXCEPT !.via = "blocked"]
                /\ UNCHANGED <<finishCalls, table>>
  /\ UNCHANGED <<validator, prefix, tree, store, listVars, pathVars,
                 debounceVars, nodeEnv, factory, opts, field, console,
                 lastChange>>

\* handlePaginationChange with an unchanged page size: the page becomes
\* the one chosen, and the query runs for it.
TablePaginate(page) ==
  /\ page # table.current
  /\ Len(table.searches) < MaxSearches
  /\ table' = Queried([table EXCEPT !.current = page])
  /\ UNCHANGED <<formVars, listVars, hookVars, pathVars, debounceVars>>

InitTable ==
  /\ validator \in TableSchemas
  /\ FormInit
  /\ list = [kind |-> "shadow", name |-> Arr(<<K("emails")>>),
             path |-> <<K("emails")>>]
  /\ listValue = <<>>
  /\ ListInit
  /\ nodeEnv = "test"
  /\ opts \in TableOptions
  /\ LET r == requiredFieldsOf(validator)
     IN /\ factory = [requiredFields |-> r,
                      probes |-> IF r.probed THEN 1 ELSE 0,
                      binds |-> 1, renders |-> 0]
        /\ \E name \in TableNames :
             field = FormItemProps(<<>>, name, FALSE,
                                   [validator |-> validator,
                                    requiredFields |-> r,
                                    normalizeValue |-> FALSE])
  /\ console = <<>>
  /\ lastChange = NoChange
  /\ submitRun = NoSubmit
  /\ ExtIdle

NextTable ==
  \/ \E v \in TableValues : TableChange(v)
  \/ TableTimeout
  \/ TableTick
  \/ TableSubmit
  \/ \E page \in Pages : TablePaginate(page)

SpecTable == InitTable /\ [][NextTable]_vars

Next ==
  \/ \E mode \in Modes, name \in ItemNames \cup {NoName} :
       RenderFormItem(mode, name)
  \/ \E mode \in Modes, leaf \in Leaves : RenderSplicedItem(mode, leaf)
  \/ \E mode \in Modes, name \in ListNames, index \in 0..MaxIndex :
       RenderFormList(mode, name, index)
  \/ \E v \in Values : ChangeInput(v)
  \/ Submit
  \/ Remount

Spec == Init /\ [][Next]_vars

(***************************************************************************)
(* Properties of the scope prefix and of the bindings' full paths.         *)
(***************************************************************************)
Rel(e) == normalizeNamePath(e.name)
IsField(e) == e.kind = "item" /\ e.name # NoName
IsRooted(e) == e.mode \in {"form", "none"}
IsInherit(e) == e.mode = "inherit"
LeafAt(path, v) == [path |-> path, value |-> v]

\* C1: an inherit-mode field with relative path R rendered beneath a
\* root-level field binding with path P is registered at P followed by R:
\* the value typed into it is stored there, no schema issue at that path
\* survives to the submit handler, and onFinish receives the value there.
C1_InheritBindsUnderRootField ==
  (/\ Len(tree) = 2
   /\ IsField(tree[1]) /\ IsRooted(tree[1])
   /\ IsField(tree[2]) /\ IsInherit(tree[2]))
  => LET full == Rel(tree[1]) \o Rel(tree[2])
     IN /\ tree[2].fullPath = full
        /\ \A e \in store : e.path = full
        /\ \A err \in fieldErrors : ~arePathsEqual(err.name, full)
        /\ finishCalls # <<>> =>
             /\ \A e \in finishCalls[1] : e \in store /\ e.path = full
             /\ (~validator.present \/ <<full[1]>> \in validator.known)
                  => finishCalls[1] = store

C1_Witness ==
  /\ validator = UserSchema
  /\ Len(tree) = 2
  /\ IsRooted(tree[1]) /\ tree[1].name = Arr(<<K("address")>>)
  /\ IsInherit(tree[2]) /\ tree[2].name = Arr(<<K("street")>>)
  /\ finishCalls = << {LeafAt(<<K("address"), K("street")>>, "Main St")} >>

\* C2: inherit-mode fields nested inside one another beneath one root-level
\* field binding with path P all resolve a relative path R to P followed by
\* R, and none of them changes the prefix its descendants see.
C2_InheritDoesNotCompound ==
  \A n \in 2..Len(tree) :
    (/\ IsField(tree[1]) /\ IsRooted(tree[1])
     /\ \A m \in 2..n : IsField(tree[m]) /\ IsInherit(tree[m]))
    => /\ tree[n].fullPath = Rel(tree[1]) \o Rel(tree[n])
       /\ tree[n].ambient = Rel(tree[1])
       /\ tree[n].childPrefix = Rel(tree[1])

C2_Witness ==
  /\ Len(tree) = 3
  /\ IsField(tree[1]) /\ IsRooted(tree[1])
  /\ IsField(tree[2]) /\ IsInherit(tree[2])
  /\ IsField(tree[3]) /\ IsInherit(tree[3])
  /\ tree[2].name = tree[3].name
  /\ tree[2].fullPath = tree[3].fullPath
  /\ tree[3].fullPath = Rel(tree[1]) \o Rel(tree[3])

\* C3 (as claimed): a rooted field binding with path Q rendered inside a
\* rooted field binding with path P shadows it: an inherit-mode field
\* beneath the inner one resolves R to Q followed by R.
C3_InnermostProviderWins ==
  \A n \in 3..Len(tree) :
    (/\ IsField(tree[n-2]) /\ IsRooted(tree[n-2])
     /\ IsField(tree[n-1]) /\ IsRooted(tree[n-1])
     /\ IsField(tree[n]) /\ IsInherit(tree[n]))
    => tree[n].fullPath = Rel(tree[n-1]) \o Rel(tree[n])

\* C4 (as claimed): a field or list binding of the form-level hook, or of
\* the instance hook without inherit, binds at exactly its declared path.
C4_RootedBindsAtDeclaredPath ==
  \A n \in 1..Len(tree) :
    IsRooted(tree[n]) => tree[n].fullPath = Rel(tree[n])

\* C5 (as claimed): inside item i of a list with own path L under outer
\* prefix O the ambient prefix is O, L, i and an inherit-mode field with
\* relative path R resolves to O, L, i, R.
C5_ListItemEstablishesPrefix ==
  \A n \in 2..Len(tree) :
    (tree[n-1].kind = "list" /\ IsField(tree[n]) /\ IsInherit(tree[n]))
    => LET itemPrefix == tree[n-1].ctx \o Rel(tree[n-1])
                           \o <<N(tree[n-1].index)>>
       IN /\ tree[n].ambient = itemPrefix
          /\ tree[n].fullPath = itemPrefix \o Rel(tree[n])

\* C5 (amended): a list binding registers at O followed by L and leaves the
\* ambient prefix of its items' descendants at O, so an inherit-mode field
\* with relative path R inside item i resolves to O followed by R.
C5_ListKeepsOuterPrefix ==
  \A n \in 2..Len(tree) :
    (tree[n-1].kind = "list" /\ IsField(tree[n]) /\ IsInherit(tree[n]))
    => LET O == tree[n-1].ctx
       IN /\ tree[n-1].fullPath = O \o Rel(tree[n-1])
          /\ tree[n].ambient = O
          /\ tree[n].fullPath = O \o Rel(tree[n])

C5_Witness ==
  /\ Len(tree) = 3
  /\ IsField(tree[1]) /\ IsRooted(tree[1])
  /\ tree[2].kind = "list" /\ tree[2].index = 1
  /\ tree[2].fullPath = Rel(tree[1]) \o Rel(tree[2])
  /\ IsField(tree[3]) /\ IsInherit(tree[3])
  /\ tree[3].fullPath = Rel(tree[1]) \o Rel(tree[3])

(***************************************************************************)
(* Properties of the list bindings and of the schema rule.                 *)
(***************************************************************************)
RelPaths == {<<>>, <<K("email")>>, <<K("address"), K("street")>>}
ShownHandles == {shown.handles[n] : n \in 1..Len(shown.handles)}
ShownKeys == [n \in 1..Len(shown.handles) |-> shown.handles[n].key]

\* C6 (as stated): every item handle given to a list binding's children has
\* its numeric index and a getName helper, and getName(R) is the list's
\* full path, then the index, then R.
C6_EveryHandleHasGetName ==
  \A h \in ShownHandles :
    /\ h.hasGetName
    /\ \A R \in RelPaths : GetName(h, R) = list.path \o <<N(h.name)>> \o R

\* C6 (amended): the handles of the helper list binding have their numeric
\* index and a getName with getName(R) = the list's path, the index, R; the
\* handles of the shadow list binding have their index and key and no
\* getName.
C6_HelperHandlesSplice ==
  \A n \in 1..Len(shown.handles) :
    LET h == shown.handles[n]
    IN /\ h.name = n - 1 \/ list.kind = "shadow"
       /\ h.hasGetName <=> list.kind = "helper"
       /\ h.hasGetName =>
            \A R \in RelPaths :
              GetName(h, R) = normalizeNamePath(list.name) \o <<N(h.name)>> \o R

C6_Witness ==
  /\ list.kind = "helper" /\ Settled
  /\ lastOp.op = "remove"
  /\ \E h \in ShownHandles : h.key # h.name

\* C7: once remove(k) on n items is reflected to the children, the n-1
\* survivors are the original items without item k, in their original
\* order (with the keys they were rendered with), named 0..n-2, and
\* getName splices the current index.
C7_RemoveShiftsIndices ==
  (lastOp.op = "remove" /\ Settled) =>
    /\ listValue = RemoveAt(lastOp.items, lastOp.arg)
    /\ Len(lastOp.before) = Len(lastOp.items) =>
         ShownKeys = RemoveAt(lastOp.before, lastOp.arg)
    /\ Len(shown.handles) = Len(listValue)
    /\ \A n \in 1..Len(shown.handles) :
         LET h == shown.handles[n]
         IN /\ h.name = n - 1
            /\ h.hasGetName =>
                 \A R \in RelPaths :
                   GetName(h, R) = list.path \o <<N(n - 1)>> \o R

C7_Witness ==
  /\ lastOp.op = "remove" /\ Settled
  /\ Len(lastOp.items) = MaxItems /\ lastOp.arg = 1
  /\ Len(shown.handles) = MaxItems - 1
  /\ shown.handles[2].name = 1 /\ shown.handles[2].key = 2

\* C8: in the shadow list binding the captured triple changes only in the
\* capture effect, to what the primitive produced, and whenever the
\* children are rendered they are rendered from the triple captured before
\* that pass, not from what the primitive produces in it.
C8_CaptureIsPushed ==
  [][list.kind = "shadow" =>
       /\ listState' # listState =>
            pending.effect /\ listState'.fields = produced
       /\ shown' # shown =>
            shown'.handles = ShadowHandles(listState.fields)]_vars

C8_Witness ==
  /\ list.kind = "shadow"
  /\ lastOp.op = "add" /\ passes = 1 /\ pending.effect
  /\ Len(produced) = Len(shown.handles) + 1
  /\ Len(listState.fields) = Len(shown.handles)

SamePath(a, b) ==
  /\ Len(a) = Len(b)
  /\ \A n \in 1..Len(a) : a[n].k = b[n].k /\ a[n].i = b[n].i
IssuesOf(input) == Validate(validator, input).issues
IssuesAt(input, P) ==
  {n \in 1..Len(IssuesOf(input)) :
     IssuesOf(input)[n].hasPath /\ SamePath(IssuesOf(input)[n].path, P)}

\* C10: a field's schema rule validates all current values of the form and
\* fails, with the message of an issue at the field's path, exactly when
\* the run reports an issue whose path equals the field's path up to {key}
\* wrappers; issues elsewhere do not fail the field.
C10_RuleFailsOnOwnIssueOnly ==
  ruleRun.ran =>
    /\ ruleRun.input = store
    /\ ruleRun.ok <=> IssuesAt(store, ruleRun.fieldPath) = {}
    /\ ~ruleRun.ok =>
         \E n \in IssuesAt(store, ruleRun.fieldPath) :
           ruleRun.message = IssuesOf(store)[n].message

C10_Witness ==
  /\ ruleRun.ran /\ ~ruleRun.ok
  /\ ruleRun.fieldPath = EmailAt(0)
  /\ Len(IssuesOf(store)) = 2
  /\ IssuesOf(store)[1].path = <<K("emails")>>
  /\ IssuesOf(store)[2].path = <<W(K("emails")), W(N(0)), W(K("email"))>>
  /\ ruleRun.message = "at wrapped field"

(***************************************************************************)
(* Properties of the form-level hook.                                      *)
(***************************************************************************)
EffectivePath(f) == f.ctxPrefix \o normalizeNamePath(f.declared)
Unwrapped(path) == [n \in 1..Len(path) |-> [path[n] EXCEPT !.w = FALSE]]
ProbeIssues == IssuesOf({})
RequiredSet == factory.requiredFields

\* C11: a rendered field is marked required exactly when its effective full
\* path (ambient prefix, then declared path) equals, up to {key} wrappers,
\* some path of the form's required-field set.
C11_RequiredIffInRequiredSet ==
  field.rendered =>
    (field.required.value <=>
       /\ RequiredSet.defined
       /\ \E n \in 1..Len(RequiredSet.paths) :
            SamePath(RequiredSet.paths[n], EffectivePath(field)))

C11_Witness ==
  /\ validator = WrappedSchema
  /\ field.rendered /\ field.declared = Scalar(K("name"))
  /\ RequiredSet.paths = << <<W(K("name"))>> >>
  /\ field.required.value

\* C12: with a (synchronous) schema bound, the required-field set is the
\* sequence of the paths of the issues reported for the empty input, in the
\* order reported, and empty when none is reported.
C12_RequiredSetIsProbeIssues ==
  (validator.present /\ ~validator.async) =>
    /\ RequiredSet.defined
    /\ RequiredSet.paths =
         LET withPath == SelectSeq(ProbeIssues, LAMBDA i : i.hasPath)
         IN [n \in 1..Len(withPath) |-> withPath[n].path]
    /\ ProbeIssues = <<>> => RequiredSet.paths = <<>>

C12_Witness ==
  /\ validator = PersonSchema
  /\ RequiredSet.paths = << <<K("name")>>, <<K("age")>> >>
  /\ factory.binds = MaxBinds

\* C13 (as stated): when the probe's result is pending a warning is
\* emitted, no required-field set exists, no field is marked required, and
\* the field still binds with its schema rule.
C13_AsyncProbeWarns ==
  validator.async =>
    /\ Len(console) = factory.binds
    /\ ~RequiredSet.defined
    /\ field.rendered => ~field.required.value /\ field.schemaRule

\* C13 (amended): when the probe's result is pending it is not awaited; the
\* warning is written in a development build only, once per binding; no
\* required-field set exists, no field is marked required, the field still
\* binds with its schema rule and a submission still validates.
C13_AsyncProbeWarnsInDevelopment ==
  validator.async =>
    /\ console = [n \in 1..(IF nodeEnv = "development" THEN factory.binds
                            ELSE 0) |-> AsyncProbeMessage]
    /\ factory.probes = factory.binds
    /\ ~RequiredSet.defined
    /\ field.rendered => ~field.required.value /\ field.schemaRule
    /\ (submitRun.ran /\ opts.hasOnFinish) =>
         submitRun.validated /\ (submitRun.called <=> ~submitRun.wrote)

C13_Witness ==
  /\ validator = AsyncSchema /\ nodeEnv = "production"
  /\ console = <<>>
  /\ field.rendered /\ ~field.required.value
  /\ submitRun.called /\ finishCalls # <<>>

\* C14: the probe runs once per binding of a schema and never on a render
\* that re-uses the binding, and the required-field set keeps its value
\* over every render, change, validation and submission.
C14_ProbeOncePerBinding ==
  [][/\ factory'.requiredFields = factory.requiredFields
     /\ factory'.binds = factory.binds => factory'.probes = factory.probes
     /\ factory'.probes <= factory'.binds]_vars

C14_Witness ==
  /\ validator = PersonSchema
  /\ factory.renders = MaxRenders /\ factory.binds = 1 /\ factory.probes = 1
  /\ lastChange.count > 0 /\ submitRun.ran
  /\ RequiredSet.paths = << <<K("name")>>, <<K("age")>> >>

\* C15: with a schema bound the caller's onFinish is called only for
\* values that pass the schema, with the parsed output, and never for
\* values that fail, however the submission was started.
C15_FinishOnlyWithParsedOutput ==
  [][ /\ (submitRun'.ran /\ validator'.present) =>
           (LET result == Validate(validator', submitRun'.input)
            IN /\ submitRun'.called =>
                    (~result.hasIssues /\ submitRun'.arg = result.value)
               /\ result.hasIssues => ~submitRun'.called)
      /\ (finishCalls' # finishCalls) =>
           (/\ submitRun'.called
            /\ finishCalls' = Append(finishCalls, submitRun'.arg)) ]_vars

C15_Witness ==
  /\ validator = PersonSchema /\ submitRun.via = "auto"
  /\ [path |-> <<K("age")>>, value |-> "30"] \in store
  /\ finishCalls = << {[path |-> <<K("name")>>, value |-> "Alice"],
                       [path |-> <<K("age")>>, value |-> "number 30"]} >>

C17_ValidatorThrowIsFatal ==
  /\ (/\ ruleRun.ran /\ field.declared # NoName
      /\ Validate(validator, ruleRun.input).threw) =>
       /\ ruleRun.message # Poison
       /\ \A e \in fieldErrors : e.errors # Poison
  /\ (submitRun.ran /\ Validate(validator, submitRun.input).threw) =>
       submitRun.rejected /\ ~submitRun.wrote /\ ~submitRun.called

\* C18 (as claimed): a field binding without a name gives Form.Item no
\* name, attaches no schema rule and is not marked required, under any
\* prefix.
C18_UnnamedFieldIsLayoutOnly ==
  (field.rendered /\ field.declared = NoName) =>
    /\ ~field.named
    /\ ~field.schemaRule
    /\ ~field.required.value
    /\ lastChange.count > 0 => store \in HookStores

\* C19: a field with its own normalize is normalized by it alone, even
\* when the form has a normalizeValue; a field without one is normalized
\* by the form's normalizeValue, called with the field's effective full
\* path and the new value.
C19_ItemNormalizeFirst ==
  (field.rendered /\ lastChange.count > 0) =>
    /\ field.normalize =>
         /\ lastChange.by = "item"
         /\ lastChange.stored = ItemNormalize(lastChange.raw)
    /\ (~field.normalize /\ opts.normalizeValue) =>
         /\ lastChange.by = "form"
         /\ lastChange.params = [name |-> EffectivePath(field),
                                 value |-> lastChange.raw]
         /\ lastChange.stored = (IF lastChange.raw = "" THEN Undefined
                                 ELSE lastChange.raw)
    /\ LeafAt(EffectivePath(field), lastChange.stored) \in store

C19_Witness ==
  /\ field.rendered /\ field.normalize /\ opts.normalizeValue
  /\ lastChange.raw = "" /\ lastChange.stored = ""
  /\ lastChange.by = "item"

\* C20: without a per-field normalize and without a form-level
\* normalizeValue a changed value reaches the store and onFinish as typed:
\* the empty string stays the empty string; a value becomes undefined only
\* under a configured normalizeValue.
C20_NoNormalizationByDefault ==
  (field.rendered /\ lastChange.count > 0) =>
    /\ lastChange.stored = Undefined => opts.normalizeValue
    /\ (~field.normalize /\ ~opts.normalizeValue) =>
         /\ lastChange.by = "none"
         /\ LeafAt(EffectivePath(field), lastChange.raw) \in store
         /\ (/\ submitRun.called /\ submitRun.input = store
             /\ ~validator.coerce
             /\ ~validator.present
                  \/ \E q \in validator.known :
                       IsPrefixOf(q, EffectivePath(field)))
              => LeafAt(EffectivePath(field), lastChange.raw)
                   \in submitRun.arg

C20_Witness ==
  /\ validator = OptionalSchema
  /\ field.rendered /\ ~field.normalize /\ ~opts.normalizeValue
  /\ lastChange.raw = ""
  /\ finishCalls = << {LeafAt(<<K("name")>>, "")} >>

(***************************************************************************)
(* Properties of the path helpers.                                         *)
(***************************************************************************)
\* C21: path equality is false when either path is absent, false when
\* the lengths differ, and otherwise true exactly when the segments are
\* pairwise equal after unwrapping {key} segments; [a,{key:2},b] equals
\* [a,2,b] and [a,b] does not equal [a].
C21_PathEquality ==
  calc.op = "arePathsEqual" =>
    /\ (~calc.a.given \/ ~calc.b.given) => ~calc.equal
    /\ (calc.a.given /\ calc.b.given) =>
         /\ Len(calc.a.segs) # Len(calc.b.segs) => ~calc.equal
         /\ Len(calc.a.segs) = Len(calc.b.segs) =>
              (calc.equal <=>
                 \A n \in 1..Len(calc.a.segs) :
                   Unwrapped(<<calc.a.segs[n]>>) = Unwrapped(<<calc.b.segs[n]>>))
    /\ (/\ calc.a = ArrayRef(1, <<K("a"), W(N(2)), K("b")>>)
        /\ calc.b = ArrayRef(2, <<K("a"), N(2), K("b")>>)) => calc.equal
    /\ (/\ calc.a = ArrayRef(1, <<K("a"), K("b")>>)
        /\ calc.b = ArrayRef(2, <<K("a")>>)) => ~calc.equal

C21_Witness ==
  /\ calc.op = "arePathsEqual"
  /\ calc.a = ArrayRef(1, <<K("a"), W(N(2)), K("b")>>)
  /\ calc.b = ArrayRef(2, <<K("a"), N(2), K("b")>>)
  /\ calc.equal

\* C22: composing a prefix with a relative path gives the prefix's
\* segments followed by the relative path's, and under an empty prefix
\* the result is the relative path that was passed in, the same object.
C22_ComposeKeepsReference ==
  calc.op = "buildFullPath" =>
    /\ calc.out.given
    /\ calc.out.segs = calc.a.segs \o calc.b.segs
    /\ calc.a.segs = <<>> => calc.out = calc.b /\ calc.out.ref = calc.b.ref

C22_Witness ==
  /\ calc.op = "buildFullPath"
  /\ calc.a.segs = <<>>
  /\ calc.b = ArrayRef(2, <<K("a"), N(2)>>)
  /\ calc.out.ref = 2

\* The shape a path leads to in a shape, by keys and, in an array, the
\* number position; "never" when the path leads nowhere.
RECURSIVE ShapeAt(_, _)
ShapeAt(T, path) ==
  IF path = <<>> THEN T
  ELSE LET next == {n \in 1..Len(T.fields) : T.fields[n].key = Head(path)}
       IN IF next = {} THEN [kind |-> "never", fields |-> <<>>]
          ELSE ShapeAt(T.fields[CHOOSE n \in next : TRUE].shape, Tail(path))

ExampleShape ==
  ObjectOf(<<[key |-> K("user"),
              shape |-> ObjectOf(<<[key |-> K("emails"),
                                    shape |-> ArrayOf(ObjectOf(
                                      <<[key |-> K("addr"),
                                         shape |-> Primitive]>>))]>>)]>>)
ExamplePaths ==
  {<<K("user")>>, <<K("user"), K("emails")>>,
   <<K("user"), K("emails"), NumberType>>,
   <<K("user"), K("emails"), NumberType, K("addr")>>}

\* C23: the valid paths derived for a shape are exactly those reached by
\* descending through object keys and the number position of arrays:
\* every derived path leads somewhere in the shape, every key of an
\* object reached contributes its path, every array reached contributes
\* its own path and its number position, and for
\* {user:{emails:{addr}[]}} they are the four paths of the example.
C23_PathUniverse ==
  calc.op = "InnerPathsTuple" =>
    /\ \A path \in calc.paths :
         /\ ShapeAt(calc.a, path).kind # "never"
         /\ path = <<>> => calc.a.kind = "array"
    /\ \A path \in calc.paths \cup {<<>>} :
         LET at == ShapeAt(calc.a, path)
         IN /\ at.kind = "object" =>
                 \A n \in 1..Len(at.fields) :
                   Append(path, at.fields[n].key) \in calc.paths
            /\ at.kind = "array" =>
                 (path \in calc.paths /\ Append(path, NumberType) \in calc.paths)
    /\ calc.a = ExampleShape => calc.paths = ExamplePaths

C23_Witness ==
  /\ calc.op = "InnerPathsTuple"
  /\ calc.a = ExampleShape
  /\ calc.paths = ExamplePaths

(***************************************************************************)
(* Properties of the debounced auto-submit.                                *)
(***************************************************************************)
JsonBefore(n) == IF n = 1 THEN InitialJson ELSE changes[n - 1].value.json
IsValueChange(n) == changes[n].value.json # JsonBefore(n)
BurstStart(n) ==
  n = 1 \/ changes[n].at - changes[n - 1].at >= DebounceTicks
FollowedInBurst(n) ==
  n < Len(changes) /\ changes[n + 1].at - changes[n].at < DebounceTicks
StartOf(n) ==
  CHOOSE m \in 1..n :
    BurstStart(m) /\ \A k \in (m + 1)..n : ~BurstStart(k)
\* The delay has elapsed after change n, the last of its burst, and the
\* timer has run.
Elapsed(n) ==
  /\ ~FollowedInBurst(n)
  /\ \/ n < Len(changes)
     \/ clock >= changes[n].at + DebounceTicks /\ ~TimerDue
SubmittedFor(n, edge) ==
  {m \in 1..Len(invoked) :
     invoked[m].value = changes[n].value /\ invoked[m].edge = edge}

\* C24: in a burst of value changes, each less than the delay after the
\* previous one, the first change is submitted at once, no intermediate
\* value is submitted, and once the delay has elapsed after the last
\* change the last values are submitted exactly once if they differ from
\* those of the leading edge (and not at all otherwise).
C24_LeadingAndTrailingOnly ==
  mounted =>
    \A n \in 1..Len(changes) :
      /\ (BurstStart(n) /\ IsValueChange(n)) =>
           /\ Cardinality(SubmittedFor(n, "leading")) = 1
           /\ \A m \in SubmittedFor(n, "leading") :
                invoked[m].at = changes[n].at
      /\ ~BurstStart(n) => SubmittedFor(n, "leading") = {}
      /\ FollowedInBurst(n) => SubmittedFor(n, "trailing") = {}
      /\ Elapsed(n) =>
           /\ Cardinality(SubmittedFor(n, "trailing")) =
                (IF changes[n].value.json # changes[StartOf(n)].value.json
                 THEN 1 ELSE 0)
           /\ \A m \in SubmittedFor(n, "trailing") :
                invoked[m].at = changes[n].at + DebounceTicks

C24_Witness ==
  /\ mounted
  /\ Len(changes) = 3
  /\ \A n \in 1..3 : IsValueChange(n)
  /\ FollowedInBurst(1) /\ FollowedInBurst(2) /\ Elapsed(3)
  /\ Len(invoked) = 2
  /\ invoked[1].value = changes[1].value /\ invoked[1].edge = "leading"
  /\ invoked[2].value = changes[3].value /\ invoked[2].edge = "trailing"

\* C25: with the equality function of auto-submit the debounced callback
\* is never invoked with a value equal to that of its previous
\* invocation, on either edge and across cycles.
C25_NoRepeatedInvocation ==
  \A m \in 2..Len(invoked) :
    ~equalityFn(invoked[m - 1].value, invoked[m].value)

\* A second cycle that starts with the value last called, and a third
\* call that is invoked.
C25_Witness ==
  /\ Len(changes) = 3
  /\ BurstStart(2) /\ ~IsValueChange(2)
  /\ Len(invoked) = 2
  /\ invoked[1].value = changes[1].value
  /\ invoked[2].value = changes[3].value

\* C28: while the form stays mounted, once the delay has elapsed after
\* the last change the most recent submission carries the form's latest
\* values.
C28_LastValuesSubmitted ==
  (/\ mounted
   /\ changes # <<>>
   /\ Elapsed(Len(changes)))
  => /\ invoked # <<>>
     /\ invoked[Len(invoked)].value.json = FormJson

C28_Witness ==
  /\ mounted
  /\ Len(changes) = 3
  /\ FollowedInBurst(2) /\ Elapsed(3)
  /\ invoked # <<>>
  /\ invoked[Len(invoked)].value = changes[3].value
  /\ invoked[Len(invoked)].edge = "trailing"

C30_NoInvocationIgnored ==
  lastOp.count > 0 => lastOp.op # "noop"

(***************************************************************************)
(* Properties of useTable.                                                 *)
(***************************************************************************)
\* The values the form holds pass the schema (or there is none).
StorePasses ==
  ~validator.present \/ standardValidate(validator, store).success

\* What the filters are after a submission of the values: useForm's
\* parsed output, or the values themselves without a schema.
FiltersFor(values) ==
  IF validator.present THEN standardValidate(validator, values).value
  ELSE values

\* C26 (as claimed): in auto mode, once a value was changed and the
\* debounce has run out, with values that pass the schema, the filters
\* are the new values and the search was last run with them.
C26_AutoSubmitUpdatesFilters ==
  (/\ opts.autoSubmit = "auto"
   /\ changes # <<>>
   /\ debounce.timeoutRef = NoTimer
   /\ StorePasses)
    => /\ table.filters \in {store, FiltersFor(store)}
       /\ table.searches[Len(table.searches)].filters = table.filters

\* C29 (as claimed): with a schema bound, the filters, and the filters of
\* every search run, are the initial values or the parsed output of
\* submitted values that passed the schema.
C29_FiltersAreParsedOutput ==
  validator.present =>
    \A n \in 1..Len(table.searches) :
      LET filters == table.searches[n].filters
      IN \/ filters = InitialFilters
         \/ \E k \in 1..Len(table.snapshots) :
              LET result == standardValidate(validator, table.snapshots[k])
              IN result.success /\ filters = result.value

====
